---- MODULE Spec2Model ----
(***************************************************************************)
(* Model of the captive core ledger backend                                *)
(* (ingest/ledgerbackend/captive_core_backend.go) together with the        *)
(* runner that owns the child process, its pipe and its reaper goroutine.  *)
(*                                                                         *)
(* Three kinds of processes take steps:                                    *)
(*   - the consumer, which calls PrepareRange, GetLedger and Close and is  *)
(*     at "idle" between two calls, or inside a call at one of its         *)
(*     blocking points (pc);                                               *)
(*   - the reader goroutine sendLedgerMeta (rpc) and the reaper goroutine  *)
(*     of the runner (reaper);                                             *)
(*   - the environment: the child process writing frames and exiting, and  *)
(*     the history archive publishing checkpoints.                         *)
(***************************************************************************)
EXTENDS Integers, Sequences, FiniteSets, TLC

\* ---------------------------------------------------------------- constants

readAheadBufferSize == 2
ledgersPerCheckpoint == 64
maxCheckpointsAhead == 2

\* ------------------------------------------------------------------- bounds

\* frames one child writes at most before it stalls
MaxFrames == 3
\* subprocesses started in one behaviour
MaxSessions == 2
\* frames the pipe holds that the reader has not decoded yet
MaxPipe == 1
\* largest ledger handed to runFromParams on its own
MaxFrom == 200

\* -------------------------------------------------------------- input sets

\* CurrentLedger of the archive's root HAS, in the order it reports them
Checkpoints == <<63, 66>>
\* ranges handed to PrepareRange
BoundedRanges ==
    { [bounded |-> TRUE, from |-> 3, to |-> 3],
      [bounded |-> TRUE, from |-> 64, to |-> 65],
      [bounded |-> TRUE, from |-> 65, to |-> 200] }
UnboundedRanges ==
    { [bounded |-> FALSE, from |-> f, to |-> 0] : f \in {1, 2, 3, 192, 300} }
Ranges == BoundedRanges \cup UnboundedRanges
\* sequences handed to GetLedger
Requested == {3, 4, 65, 66}

\* ------------------------------------------------------------------ values

Nil == -1
NilMeta == [seq |-> Nil, sess |-> Nil]
Meta(seq, sess) == [seq |-> seq, sess |-> sess]

Err(kind, a, b) == [kind |-> kind, a |-> a, b |-> b]
NoErr == Err("nil", 0, 0)
ErrClosed == Err("session is closed, call PrepareRange first", 0, 0)
ErrBehind(sequence, expected) ==
    Err("requested ledger is behind the captive core stream", sequence, expected)
ErrUnexpected(expected, actual) == Err("unexpected ledger", expected, actual)
ErrExitWithError == Err("hcnet-core process exited with an error", 0, 0)
ErrExitUnexpectedly ==
    Err("hcnet-core process exited without an error unexpectedly", 0, 0)
ErrEOF == Err("got EOF from subprocess", 0, 0)
ErrNotOpened ==
    Err("hcnet-core must be opened to return latest available sequence", 0, 0)
ErrClosingSubprocess == Err("error closing hcnet-core subprocess", 0, 0)
ErrRootHAS == Err("error getting latest checkpoint sequence", 0, 0)
ErrAhead(from, latest) ==
    Err("sequence is greater than max available in history archives", from, latest)
ErrTooFar(latest) == Err("trying to start online mode too far", latest, 0)
ErrNoConfig ==
    Err("hcnet-core config file path cannot be empty in an online mode", 0, 0)
ErrFactory == Err("error creating hcnet-core runner", 0, 0)
ErrFromOne == Err("CaptiveCore is unable to start from ledger 1", 0, 0)
ErrHeader == Err("error trying to read ledger header from HAS", 0, 0)
ErrRunning == Err("error running hcnet-core", 0, 0)
ErrFastForward(e) == Err("Error fast-forwarding", e.a, e.b)

MetaResult(meta, err) == [meta |-> meta, err |-> err]

NoCall == [name |-> "none", bounded |-> FALSE, from |-> 0, to |-> 0, seq |-> 0]
CallPrepareRange(R) ==
    [name |-> "PrepareRange", bounded |-> R.bounded, from |-> R.from,
     to |-> R.to, seq |-> 0]
CallGetLedger(s) ==
    [name |-> "GetLedger", bounded |-> FALSE, from |-> 0, to |-> 0, seq |-> s]
CallClose == [name |-> "Close", bounded |-> FALSE, from |-> 0, to |-> 0, seq |-> 0]

Ret(present, meta, err) == [present |-> present, meta |-> meta, err |-> err]
NoRet == Ret(FALSE, NilMeta, NoErr)

\* what PrepareRange found when it was called, kept while the call runs
Pre(n, l, buffer, runner) ==
    [nextLedger |-> n, lastLedger |-> l, metaC |-> buffer, runner |-> runner]
NoPre == Pre(0, Nil, <<>>, "nil")

Min(a, b) == IF a < b THEN a ELSE b

\* the invocation that started the child: catchup(from, to) or
\* runFrom(from, hash)
RunnerCall(name, a, b) == [name |-> name, a |-> a, b |-> b]
NoRunnerCall == RunnerCall("none", 0, 0)

\* (runFrom, ledgerHash, nextLedger, err) of runFromParams, with the ledger
\* whose header gives the hash in place of the hash
Params(header, runFrom, nextLedger, err) ==
    [header |-> header, runFrom |-> runFrom, nextLedger |-> nextLedger,
     err |-> err]
NoParams == Params(0, 0, 0, NoErr)

\* ------------------------------------------------- values of the processors

\* a change of the ledger entry (type, id): pre and post are the entry before
\* and after, Nil for a null entry and 1 for an entry
Change(type, id, before, after) ==
    [type |-> type, id |-> id, pre |-> before, post |-> after]
\* a row of a table of the ingestion store; deleted_at is Nil while the row
\* is not marked for deletion
Row(deleted_at) == [present |-> TRUE, deleted_at |-> deleted_at]
NoRow == [present |-> FALSE, deleted_at |-> Nil]
\* a call on the ingestion store: its name, its argument (an id, the ids of
\* a batch, a cutoff), and whether it returned an error
SinkOp(name, arg, failed) == [name |-> name, arg |-> arg, failed |-> failed]

\* errors of the processors; Wrap keeps the cause as errors.Wrap does
ErrSink == Err("ingestion store error", 0, 0)
StateError(rowsAffected, action, id) ==
    [kind |-> "state error", a |-> rowsAffected, b |-> id, action |-> action]
Wrap(err, message) == [kind |-> message, cause |-> err]
RECURSIVE Cause(_)
Cause(err) == IF "cause" \in DOMAIN err THEN Cause(err.cause) ELSE err

\* ids of the ledger entries of one type
Ids == {1, 2}
\* the ingestion store: its tables (offers, claimable balances, accounts and
\* account signers by id, transactions by ledger and position), the calls
\* made on it since the processors were built, and the position in that
\* list of the call the store fails (0: none)
EmptySink ==
    [offers |-> [id \in Ids |-> NoRow],
     balances |-> [id \in Ids |-> NoRow],
     accounts |-> [id \in Ids |-> NoRow],
     signers |-> [id \in Ids |-> NoRow],
     transactions |-> {},
     log |-> <<>>,
     failAt |-> 0]
\* the tables of a store
Tables(s) ==
    [offers |-> s.offers, balances |-> s.balances, accounts |-> s.accounts,
     signers |-> s.signers, transactions |-> s.transactions]

\* a state-entry processor: the entry type it handles, the ledger sequence it
\* was built for, its change cache and the rows of its batch insert builder
Processor(type, sequence, cache, batch) ==
    [type |-> type, sequence |-> sequence, cache |-> cache, batch |-> batch]
NoProcessor == Processor("none", 0, <<>>, <<>>)
\* the result of the last call on the processor
PResult(name, err) == [name |-> name, err |-> err]
NoPResult == PResult("none", NoErr)

\* ---------------------------------------- values of the processor runner

\* a closed ledger as the backend returns it: the protocol version and the
\* bucket list hash of its header, its entry changes and its transactions
LedgerCloseMeta(sequence, ledgerVersion, bucketListHash, changes, txs) ==
    [seq |-> sequence, ledgerVersion |-> ledgerVersion,
     bucketListHash |-> bucketListHash, changes |-> changes, txs |-> txs]
\* what a run finds outside: whether the backend has the ledger, the ledger,
\* the bucket list hash and the entries of the archive's checkpoint
Env(exists, ledger, historyBucketListHash, state) ==
    [exists |-> exists, ledger |-> ledger,
     historyBucketListHash |-> historyBucketListHash, state |-> state]
NoEnv == Env(FALSE, LedgerCloseMeta(0, 0, 0, <<>>, 0), 0, <<>>)
\* a call the runner makes on the backend, the archive or a processor group
Event(name, arg) == [name |-> name, arg |-> arg]
\* a call of the runner and the error it returned
RunCall(name, sequence, env) == [name |-> name, sequence |-> sequence, env |-> env]
NoRunCall == RunCall("none", 0, NoEnv)

ErrBackend == Err("ledger backend error", 0, 0)
ErrArchive == Err("history archive error", 0, 0)
ErrProtocol(ledgerVersion, supported) ==
    Err("This Aurora version does not support protocol version", ledgerVersion,
        supported)
ErrLedgerMissing == Err("ledger does not exist", 0, 0)
ErrCheckpointMissing(sequence) ==
    Err("cannot validate bucket hash list. Checkpoint ledger must exist", sequence, 0)
ErrBucketList(history, ledger) ==
    Err("Bucket list hash of history archive and ledger header does not match",
        history, ledger)

\* ------------------------------------ values of the remote captive client

\* callers of PrepareRange on one client
Callers == {1, 2}
\* a PrepareRange call of the remote client: where it is ("none",
\* "request": about to send the request, "select": waiting for the timer or
\* the context, "returned"), its context, the requests it has sent and the
\* error it returned
PollCall(at, ctx, requests, err) ==
    [at |-> at, ctx |-> ctx, requests |-> requests, err |-> err]
NoPollCall == PollCall("none", 0, 0, NoErr)
\* the client value NewRemoteCaptive returns (cancel: the context its cancel
\* field cancels, Nil for a nil func), the contexts created and those
\* cancelled, the calls of PrepareRange, the calls of Close that returned and
\* whether the server has the range ready
RemoteCaptive(client, contexts, cancelled, calls, closes, ready) ==
    [client |-> client, contexts |-> contexts, cancelled |-> cancelled,
     calls |-> calls, closes |-> closes, ready |-> ready]
NewRemoteCaptive ==
    RemoteCaptive([cancel |-> Nil], 0, {}, [c \in Callers |-> NoPollCall], 0,
                  FALSE)

\* --------------------------------------- values of the key value store

\* a uint32 as its two 16 bit halves: hi * 65536 + lo
U32(hi, lo) == [hi |-> hi, lo |-> lo]
\* the keys of the two cursors
lastLedgerKey == "exp_ingest_last_ledger"
offerCompactionSequence == "offer_compaction_sequence"
Keys == {lastLedgerKey, offerCompactionSequence}
\* the key value store: the value of each key, a string of decimal digits
\* ("" when the key has no row), the number last written under each key
\* (NoNumber: none), and the last call with its result
NoNumber == U32(Nil, Nil)
KeyValueStore(values, written, op, key, value, err) ==
    [values |-> values, written |-> written, op |-> op, key |-> key,
     value |-> value, err |-> err]
EmptyKeyValueStore ==
    KeyValueStore([k \in Keys |-> <<>>], [k \in Keys |-> NoNumber], "none", "",
                  U32(0, 0), NoErr)

\* ------------------------------------------------------------------- state

VARIABLES
    \* CaptiveHcnetCore
    nextLedger, lastLedger, blocking, cachedMeta, configPath,
    shutdown, metaC, metaCState, hcnetCoreRunner, processExit, processErr,
    \* sendLedgerMeta goroutine
    rpc, ritem, untilSequence,
    \* runner: child process, its pipe, the reaper goroutine
    child, childNext, childCap, exitCause, pipe, reaper, runnerCall,
    \* archive
    latest,
    \* consumer
    pc, call, ret, getSeq, inFF, closeCont, errOut, pre,
    \* history: subprocesses started, ledgers the current session accepted
    session, consumed,
    \* TestCaptiveRunFromParams: the argument and the result of runFromParams
    rfpFrom, rfpResult,
    \* a state-entry processor, the ingestion store it writes to, the changes
    \* it was fed, the result of its last call, the processors built so far
    processor, sink, fed, presult, lifetimes,
    \* ProcessorRunner: the last call and its error, the calls it made on the
    \* backend, the archive and the processor groups, and the tables of the
    \* store as of the last commit of the caller's transaction
    runCall, runErr, trace, durable,
    \* the remote captive client with its PrepareRange calls, and the key
    \* value store of the ingestion cursors
    remote, kv

backendVars ==
    <<nextLedger, lastLedger, blocking, cachedMeta, configPath, shutdown,
      metaC, metaCState, hcnetCoreRunner, processExit, processErr>>
readerVars == <<rpc, ritem, untilSequence>>
childVars == <<child, childNext, childCap, exitCause, pipe, reaper, runnerCall>>
consumerVars == <<pc, call, ret, getSeq, inFF, closeCont, errOut, pre>>
\* the variables outside the captive backend and its runner
rfpVars == <<rfpFrom, rfpResult>>
processorVars == <<processor, sink, fed, presult, lifetimes>>
runnerVars == <<runCall, runErr, trace, durable>>
clientVars == <<remote, kv>>
otherVars == <<rfpVars, processorVars, runnerVars, clientVars>>
captiveVars ==
    <<backendVars, readerVars, childVars, latest, consumerVars, session,
      consumed>>
vars ==
    <<backendVars, readerVars, childVars, latest, consumerVars, session, consumed,
      otherVars>>

Init ==
    /\ nextLedger = 0
    /\ lastLedger = Nil
    /\ blocking = FALSE
    /\ cachedMeta = NilMeta
    /\ configPath \in {"", "hcnet-core.cfg"}
    /\ shutdown = "nil"
    /\ metaC = <<>>
    /\ metaCState = "nil"
    /\ hcnetCoreRunner = "nil"
    /\ processExit = FALSE
    /\ processErr = NoErr
    /\ rpc = "none"
    /\ ritem = MetaResult(NilMeta, NoErr)
    /\ untilSequence = 0
    /\ child = "none"
    /\ childNext = 0
    /\ childCap = 0
    /\ exitCause = NoErr
    /\ pipe = <<>>
    /\ reaper = "none"
    /\ runnerCall = NoRunnerCall
    /\ latest = 1
    /\ pc = "idle"
    /\ call = NoCall
    /\ ret = NoRet
    /\ getSeq = 0
    /\ inFF = FALSE
    /\ closeCont = "none"
    /\ errOut = NoErr
    /\ pre = NoPre
    /\ session = 0
    /\ consumed = <<>>
    /\ rfpFrom = 0
    /\ rfpResult = NoParams
    /\ processor = NoProcessor
    /\ sink = EmptySink
    /\ fed = <<>>
    /\ presult = NoPResult
    /\ lifetimes = 0
    /\ runCall = NoRunCall
    /\ runErr = NoErr
    /\ trace = <<>>
    /\ durable = Tables(EmptySink)
    /\ remote = NewRemoteCaptive
    /\ kv = EmptyKeyValueStore

\* ------------------------------------------------------- pure functions

\* the rounding without the special case of the first checkpoint
roundDown_NoFirstCheckpoint(ledger) ==
    (ledger \div ledgersPerCheckpoint) * ledgersPerCheckpoint

roundDownToFirstReplayAfterCheckpointStart(ledger) ==
    LET v == (ledger \div ledgersPerCheckpoint) * ledgersPerCheckpoint
    IN  IF v = 0 THEN 2 ELSE v

IsCheckpoint(i) == (i + 1) % ledgersPerCheckpoint = 0

PrevCheckpoint(i) ==
    IF i < ledgersPerCheckpoint
    THEN ledgersPerCheckpoint - 1
    ELSE (i \div ledgersPerCheckpoint) * ledgersPerCheckpoint - 1

getLatestCheckpointSequence == Checkpoints[latest]

\* runFromParams that goes back a full checkpoint with no lower limit
runFromParams_NoClamp(from) ==
    LET f == IF from <= 63 THEN 3
             ELSE IF IsCheckpoint(from) THEN from ELSE PrevCheckpoint(from)
    IN  IF from = 1 THEN Params(0, 0, 0, ErrFromOne)
        ELSE Params(f, f - 1, IF from <= 63 THEN 2 ELSE f - 63, NoErr)

\* runFromParams with an archive that has the header: the ledger whose
\* header is read, runFrom and nextLedger, or the error for from = 1
runFromParams(from) ==
    LET f == IF from <= 63 THEN 3
             ELSE IF IsCheckpoint(from) THEN from ELSE PrevCheckpoint(from)
        nl == IF from <= 63 THEN 2
              ELSE IF f - 63 < 2 THEN 2 ELSE f - 63
    IN  IF from = 1 THEN Params(0, 0, 0, ErrFromOne)
        ELSE Params(f, f - 1, nl, NoErr)

isClosed == nextLedger = 0

\* an IsPrepared that compares nextLedger with from the wrong way round
IsPrepared_Reversed(R) ==
    IF nextLedger = 0 THEN FALSE
    ELSE IF lastLedger = Nil THEN nextLedger >= R.from
    ELSE IF R.bounded THEN nextLedger >= R.from /\ nextLedger <= lastLedger
    ELSE FALSE

IsPrepared(R) ==
    IF nextLedger = 0 THEN FALSE
    ELSE IF lastLedger = Nil THEN nextLedger <= R.from
    ELSE IF R.bounded THEN nextLedger <= R.from /\ nextLedger <= lastLedger
    ELSE FALSE

GetLatestLedgerSequence ==
    IF isClosed THEN [val |-> 0, err |-> ErrNotOpened]
    ELSE IF lastLedger = Nil
         THEN [val |-> nextLedger - 1 + Len(metaC), err |-> NoErr]
         ELSE [val |-> lastLedger, err |-> NoErr]

\* ------------------------------------------------- consumer: shared pieces

\* a call returns to the caller of the backend
Return(r) ==
    /\ pc' = "idle"
    /\ ret' = r
    /\ getSeq' = 0
    /\ inFF' = FALSE
    /\ closeCont' = "none"
    /\ errOut' = NoErr
    /\ pre' = NoPre

\* a Close that leaves the shutdown channel of the session alone
CloseBegin_NoShutdown(cont) ==
    /\ nextLedger' = 0
    /\ lastLedger' = Nil
    /\ shutdown' = shutdown
    /\ pc' = "closeWait"
    /\ closeCont' = cont

\* Close, lines 576-583: reset the position, signal shutdown, then wait for
\* the reader goroutine (the wait is the step CloseWaitDone guards)
CloseBegin(cont) ==
    /\ nextLedger' = 0
    /\ lastLedger' = Nil
    /\ shutdown' = IF shutdown = "open" THEN "closed" ELSE shutdown
    /\ pc' = "closeWait"
    /\ closeCont' = cont

\* a Close that does not wait for the reader goroutine
CloseWaitDone_NoWait == TRUE

\* c.wait.Wait() returns
CloseWaitDone == shutdown = "closed" => rpc \in {"none", "done"}

\* Close, lines 584-585: close(c.metaC); c.shutdown = nil
CloseChannels ==
    /\ metaCState' = IF shutdown = "closed" THEN "closed" ELSE metaCState
    /\ shutdown' = "nil"

\* hcnetCoreRunner.close: the child is killed and reaped, the reaper
\* goroutine has returned
RunnerClose ==
    /\ child' = "none"
    /\ childNext' = 0
    /\ childCap' = 0
    /\ exitCause' = NoErr
    /\ pipe' = <<>>
    /\ reaper' = "none"
    /\ runnerCall' = NoRunnerCall

\* a Close that closes the runner and keeps the reference to it
CloseRunner_KeepRunner ==
    /\ RunnerClose
    /\ hcnetCoreRunner' = IF hcnetCoreRunner = "nil" THEN "nil" ELSE "created"

\* Close, lines 588-590
CloseRunner ==
    /\ RunnerClose
    /\ hcnetCoreRunner' = "nil"

\* hcnetCoreRunner.close() can fail only where there is a runner
CloseErrs == IF hcnetCoreRunner = "nil" THEN {FALSE} ELSE {FALSE, TRUE}

\* catchup / runFrom succeeded and `go c.sendLedgerMeta(until)` was issued
StartSession(start, last, until, invocation) ==
    /\ hcnetCoreRunner' = "started"
    /\ runnerCall' = invocation
    /\ child' = "running"
    /\ childNext' = start
    /\ childCap' = IF last = Nil THEN start + MaxFrames - 1
                   ELSE Min(last, start + MaxFrames - 1)
    /\ exitCause' = NoErr
    /\ pipe' = <<>>
    /\ reaper' = "waiting"
    /\ processExit' = FALSE
    /\ processErr' = NoErr
    /\ metaC' = <<>>
    /\ metaCState' = "open"
    /\ shutdown' = "open"
    /\ rpc' = "top"
    /\ ritem' = MetaResult(NilMeta, NoErr)
    /\ untilSequence' = until
    /\ session' = session + 1
    /\ consumed' = <<>>

\* openOffline/openOnline return an error after Close: the runner is left as
\* `runner` ("nil", or "created" when the factory had already run); what the
\* call had found stays on record until the next call
OpenFailed(runner, e) ==
    /\ CloseChannels
    /\ RunnerClose
    /\ hcnetCoreRunner' = runner
    /\ pc' = "idle"
    /\ ret' = Ret(FALSE, NilMeta, e)
    /\ closeCont' = "none"
    /\ UNCHANGED <<getSeq, inFF, errOut, pre>>
    /\ UNCHANGED <<nextLedger, lastLedger, blocking, cachedMeta, configPath,
                   metaC, processExit, processErr, readerVars, latest, call,
                   session, consumed>>

\* ------------------------------------------------------ consumer: Close

\* Close called by the user of the backend, up to c.wait.Wait()
Close ==
    /\ UNCHANGED otherVars
    /\ pc = "idle"
    /\ call' = CallClose
    /\ ret' = NoRet
    /\ pre' = NoPre
    /\ CloseBegin("Close")
    /\ UNCHANGED <<blocking, cachedMeta, configPath, metaC, metaCState,
                   hcnetCoreRunner, processExit, processErr, readerVars,
                   childVars, latest, getSeq, inFF, errOut, session, consumed>>

\* Close, from the return of c.wait.Wait() to its return
CloseReturn ==
    /\ UNCHANGED otherVars
    /\ pc = "closeWait"
    /\ closeCont = "Close"
    /\ CloseWaitDone
    /\ CloseChannels
    /\ CloseRunner
    /\ \E cerr \in CloseErrs :
          Return(Ret(FALSE, NilMeta,
                     IF cerr THEN ErrClosingSubprocess ELSE NoErr))
    /\ UNCHANGED <<nextLedger, lastLedger, blocking, cachedMeta, configPath,
                   metaC, processExit, processErr, readerVars, latest, call,
                   session, consumed>>

\* -------------------------------------------------- consumer: GetLedger

\* a GetLedger without the cache
CacheHit_Never(sequence) == FALSE

\* a GetLedger that looks at the cache only after the isClosed check
CacheHit_WhileOpen(sequence) ==
    cachedMeta # NilMeta /\ sequence = cachedMeta.seq /\ nextLedger # 0

\* line 492: the requested ledger is the cached one
CacheHit(sequence) == cachedMeta # NilMeta /\ sequence = cachedMeta.seq

\* a GetLedger without the check of line 502
Behind_Never(sequence) == FALSE

\* line 502: the stream is already past the requested ledger
Behind(sequence) == sequence < nextLedger

\* a loop that lets every ledger through
Unexpected_Never(seq) == FALSE

\* a loop that stops only at a ledger the stream is already past
Unexpected_Behind(seq) == seq < nextLedger

\* line 525: the ledger pulled is not the next one
Unexpected(seq) == seq # nextLedger

\* a loop that returns the first ledger it pulls
Found_Any(seq, sequence) == TRUE

\* line 531: the ledger pulled is the requested one
Found(seq, sequence) == seq = sequence

\* a loop that always waits for the next item
NoLedgerYet_AlwaysWait == FALSE

\* lines 513-515: not blocking and nothing in the buffer
NoLedgerYet == ~blocking /\ Len(metaC) = 0

\* line 536: the ledger pulled ends the bounded range
IsLastLedger(seq) == lastLedger # Nil /\ lastLedger = seq

\* GetLedger returns r: to the user, or into openOnlineReplaySubprocess when
\* it was called to fast-forward (lines 265-270), which restores blocking and
\* goes on to the wait loop of PrepareRange
GetLedgerReturn(r) ==
    IF inFF
    THEN /\ blocking' = FALSE
         /\ IF r.err # NoErr
            THEN Return(Ret(FALSE, NilMeta, ErrFastForward(r.err)))
            ELSE /\ pc' = "prepWait"
                 /\ ret' = NoRet
                 /\ getSeq' = 0
                 /\ inFF' = FALSE
                 /\ closeCont' = "none"
                 /\ errOut' = NoErr
                 /\ pre' = NoPre
    ELSE /\ blocking' = blocking
         /\ Return(r)

\* GetLedger, lines 492-508: the checks before the loop
GetLedger(sequence) ==
    /\ UNCHANGED otherVars
    /\ pc = "idle"
    /\ call' = CallGetLedger(sequence)
    /\ IF CacheHit(sequence)
       THEN /\ ret' = Ret(TRUE, cachedMeta, NoErr)
            /\ UNCHANGED <<pc, getSeq, inFF>>
       ELSE IF isClosed
       THEN /\ ret' = Ret(FALSE, NilMeta, ErrClosed)
            /\ UNCHANGED <<pc, getSeq, inFF>>
       ELSE IF Behind(sequence)
       THEN /\ ret' = Ret(FALSE, NilMeta, ErrBehind(sequence, nextLedger))
            /\ UNCHANGED <<pc, getSeq, inFF>>
       ELSE /\ pc' = "getLoop"
            /\ getSeq' = sequence
            /\ inFF' = FALSE
            /\ ret' = NoRet
    /\ pre' = NoPre
    /\ UNCHANGED <<backendVars, readerVars, childVars, latest, closeCont,
                   errOut, session, consumed>>

\* GetLedger, lines 513-548: one iteration of the loop
GetLedgerLoop ==
    /\ UNCHANGED otherVars
    /\ pc = "getLoop"
    /\ IF NoLedgerYet
       THEN /\ GetLedgerReturn(Ret(FALSE, NilMeta, NoErr))
            /\ UNCHANGED <<nextLedger, lastLedger, cachedMeta, shutdown, metaC,
                           consumed>>
       ELSE /\ Len(metaC) > 0
            /\ metaC' = Tail(metaC)
            /\ LET metaResult == Head(metaC)
                   seq == metaResult.meta.seq
               IN  IF metaResult.err # NoErr
                   THEN /\ errOut' = metaResult.err
                        /\ CloseBegin("getErr")
                        /\ UNCHANGED <<cachedMeta, blocking, consumed, ret,
                                       getSeq, inFF, pre>>
                   ELSE IF Unexpected(seq)
                   THEN /\ errOut' = ErrUnexpected(nextLedger, seq)
                        /\ CloseBegin("getErr")
                        /\ UNCHANGED <<cachedMeta, blocking, consumed, ret,
                                       getSeq, inFF, pre>>
                   ELSE IF ~Found(seq, getSeq)
                   THEN /\ nextLedger' = nextLedger + 1
                        /\ consumed' = Append(consumed, seq)
                        /\ UNCHANGED <<lastLedger, cachedMeta, blocking,
                                       shutdown, pc, ret, getSeq, inFF,
                                       closeCont, errOut, pre>>
                   ELSE /\ cachedMeta' = metaResult.meta
                        /\ consumed' = Append(consumed, seq)
                        /\ IF IsLastLedger(seq)
                           THEN /\ CloseBegin("getLast")
                                /\ UNCHANGED <<blocking, ret, getSeq, inFF,
                                               errOut, pre>>
                           ELSE /\ nextLedger' = nextLedger + 1
                                /\ GetLedgerReturn(
                                       Ret(TRUE, metaResult.meta, NoErr))
                                /\ UNCHANGED <<lastLedger, shutdown>>
    /\ UNCHANGED <<configPath, metaCState, hcnetCoreRunner, processExit,
                   processErr, readerVars, childVars, latest, call, session>>

\* GetLedger, lines 537-541: Close returned after the last ledger of a
\* bounded range was found
GetLedgerCloseLast ==
    /\ UNCHANGED otherVars
    /\ pc = "closeWait"
    /\ closeCont = "getLast"
    /\ CloseWaitDone
    /\ CloseChannels
    /\ CloseRunner
    /\ \E cerr \in CloseErrs :
          GetLedgerReturn(IF cerr
                          THEN Ret(FALSE, NilMeta, ErrClosingSubprocess)
                          ELSE Ret(TRUE, cachedMeta, NoErr))
    /\ UNCHANGED <<nextLedger, lastLedger, cachedMeta, configPath, metaC,
                   processExit, processErr, readerVars, latest, call, session,
                   consumed>>

\* GetLedger, lines 547-548: Close returned (its error is dropped) after an
\* error result or an unexpected sequence
GetLedgerCloseErr ==
    /\ UNCHANGED otherVars
    /\ pc = "closeWait"
    /\ closeCont = "getErr"
    /\ CloseWaitDone
    /\ CloseChannels
    /\ CloseRunner
    /\ GetLedgerReturn(Ret(FALSE, NilMeta, errOut))
    /\ UNCHANGED <<nextLedger, lastLedger, cachedMeta, configPath, metaC,
                   processExit, processErr, readerVars, latest, call, session,
                   consumed>>

\* ----------------------------------------------- consumer: PrepareRange

\* PrepareRange, lines 402-414, into openOfflineReplaySubprocess (line 152)
\* or openOnlineReplaySubprocess (lines 202-207), up to the wait in Close
PrepareRange(R) ==
    /\ UNCHANGED otherVars
    /\ pc = "idle"
    /\ call' = CallPrepareRange(R)
    /\ IF IsPrepared(R)
       THEN /\ Return(NoRet)
            /\ UNCHANGED <<nextLedger, lastLedger, shutdown>>
       ELSE IF R.bounded
       THEN /\ CloseBegin("openOffline")
            /\ ret' = NoRet
            /\ pre' = Pre(nextLedger, lastLedger, metaC, hcnetCoreRunner)
            /\ UNCHANGED <<getSeq, inFF, errOut>>
       ELSE IF lastLedger = Nil /\ nextLedger # 0 /\ nextLedger <= R.from
       THEN /\ pc' = "prepWait"
            /\ ret' = NoRet
            /\ pre' = NoPre
            /\ UNCHANGED <<nextLedger, lastLedger, shutdown, getSeq, inFF,
                           closeCont, errOut>>
       ELSE /\ CloseBegin("openOnline")
            /\ ret' = NoRet
            /\ pre' = Pre(nextLedger, lastLedger, metaC, hcnetCoreRunner)
            /\ UNCHANGED <<getSeq, inFF, errOut>>
    /\ UNCHANGED <<blocking, cachedMeta, configPath, metaC, metaCState,
                   hcnetCoreRunner, processExit, processErr, readerVars,
                   childVars, latest, session, consumed>>

\* openOfflineReplaySubprocess, lines 153-197, then PrepareRange line 419
openOfflineReplaySubprocess ==
    /\ UNCHANGED otherVars
    /\ pc = "closeWait"
    /\ closeCont = "openOffline"
    /\ CloseWaitDone
    /\ LET from == call.from
           latestCheckpointSequence == getLatestCheckpointSequence
           to == Min(call.to, latestCheckpointSequence)
       IN  \/ \E cerr \in CloseErrs :
                /\ cerr
                /\ OpenFailed("nil", ErrClosingSubprocess)
           \/ OpenFailed("nil", ErrRootHAS)
           \/ /\ from > latestCheckpointSequence
              /\ OpenFailed("nil", ErrAhead(from, latestCheckpointSequence))
           \/ /\ from <= latestCheckpointSequence
              /\ \/ OpenFailed("nil", ErrFactory)
                 \/ OpenFailed("created", ErrRunning)
                 \/ /\ session < MaxSessions
                    /\ StartSession(
                           roundDownToFirstReplayAfterCheckpointStart(from),
                           to, to, RunnerCall("catchup", from, to))
                    /\ nextLedger' =
                           roundDownToFirstReplayAfterCheckpointStart(from)
                    /\ lastLedger' = to
                    /\ blocking' = TRUE
                    /\ pc' = "prepWait"
                    /\ closeCont' = "none"
                    /\ pre' = NoPre
                    /\ UNCHANGED <<cachedMeta, configPath, latest, call, ret,
                                   getSeq, inFF, errOut>>

\* an online start is refused only from three checkpoints ahead
TooFar_OffByOne(from, latestCheckpointSequence) ==
    from > latestCheckpointSequence
             + (maxCheckpointsAhead + 1) * ledgersPerCheckpoint

\* lines 221-222: from is more than two checkpoints past the archive
TooFar(from, latestCheckpointSequence) ==
    from > latestCheckpointSequence + maxCheckpointsAhead * ledgersPerCheckpoint

\* openOnlineReplaySubprocess, lines 208-272, then PrepareRange line 419
openOnlineReplaySubprocess ==
    /\ UNCHANGED otherVars
    /\ pc = "closeWait"
    /\ closeCont = "openOnline"
    /\ CloseWaitDone
    /\ LET from == call.from
           latestCheckpointSequence == getLatestCheckpointSequence
           params == runFromParams(from)
       IN  \/ \E cerr \in CloseErrs :
                /\ cerr
                /\ OpenFailed("nil", ErrClosingSubprocess)
           \/ OpenFailed("nil", ErrRootHAS)
           \/ /\ TooFar(from, latestCheckpointSequence)
              /\ OpenFailed("nil", ErrTooFar(latestCheckpointSequence))
           \/ /\ ~TooFar(from, latestCheckpointSequence)
              /\ configPath = ""
              /\ OpenFailed("nil", ErrNoConfig)
           \/ /\ ~TooFar(from, latestCheckpointSequence)
              /\ configPath # ""
              /\ \/ OpenFailed("nil", ErrFactory)
                 \/ /\ params.err # NoErr
                    /\ OpenFailed("created", params.err)
                 \/ /\ params.err = NoErr
                    /\ \/ OpenFailed("created", ErrHeader)
                       \/ OpenFailed("created", ErrRunning)
                       \/ /\ session < MaxSessions
                          /\ StartSession(params.nextLedger, Nil, 0,
                                          RunnerCall("runFrom", params.runFrom,
                                                     params.header))
                          /\ nextLedger' = params.nextLedger
                          /\ lastLedger' = Nil
                          /\ closeCont' = "none"
                          /\ IF params.nextLedger < from /\ ~CacheHit(from)
                             THEN /\ blocking' = TRUE
                                  /\ pc' = "getLoop"
                                  /\ getSeq' = from
                                  /\ inFF' = TRUE
                             ELSE /\ blocking' = FALSE
                                  /\ pc' = "prepWait"
                                  /\ UNCHANGED <<getSeq, inFF>>
                          /\ pre' = NoPre
                          /\ UNCHANGED <<cachedMeta, configPath, latest, call,
                                         ret, errOut>>

\* a wait loop that returns although the buffer is empty
PrepareRangeWait_NoWait ==
    /\ UNCHANGED otherVars
    /\ pc = "prepWait"
    /\ Return(IF ~processExit THEN NoRet
              ELSE IF processErr # NoErr
                   THEN Ret(FALSE, NilMeta, ErrExitWithError)
                   ELSE Ret(FALSE, NilMeta, ErrExitUnexpectedly))
    /\ UNCHANGED <<backendVars, readerVars, childVars, latest, call, session,
                   consumed>>

\* PrepareRange, lines 424-450: the first item is in the buffer
PrepareRangeWait ==
    /\ UNCHANGED otherVars
    /\ pc = "prepWait"
    /\ Len(metaC) > 0
    /\ Return(IF ~processExit THEN NoRet
              ELSE IF processErr # NoErr
                   THEN Ret(FALSE, NilMeta, ErrExitWithError)
                   ELSE Ret(FALSE, NilMeta, ErrExitUnexpectedly))
    /\ UNCHANGED <<backendVars, readerVars, childVars, latest, call, session,
                   consumed>>

\* ------------------------------------------------------ reader goroutine

\* sendLedgerMeta returns (c.wait.Done()); its locals are gone
ReaderReturn ==
    /\ rpc' = "done"
    /\ ritem' = MetaResult(NilMeta, NoErr)
    /\ untilSequence' = 0

\* sendLedgerMeta, lines 328-334: shutdown is polled, then the read starts
ReaderTop ==
    /\ UNCHANGED otherVars
    /\ rpc = "top"
    /\ IF shutdown = "closed"
       THEN ReaderReturn
       ELSE /\ rpc' = "reading"
            /\ UNCHANGED <<ritem, untilSequence>>
    /\ UNCHANGED <<backendVars, childVars, latest, consumerVars, session,
                   consumed>>

\* sendLedgerMeta, lines 336-351: readLedgerMetaFromPipe returns a frame, or
\* an error once the child is gone and the pipe is drained; on an error the
\* exit channel is polled
ReaderRead ==
    /\ UNCHANGED otherVars
    /\ rpc = "reading"
    /\ rpc' = "push"
    /\ IF Len(pipe) > 0
       THEN /\ ritem' = MetaResult(Head(pipe), NoErr)
            /\ pipe' = Tail(pipe)
            /\ UNCHANGED <<processExit, processErr, reaper>>
       ELSE /\ child = "exited"
            /\ IF reaper = "sending"
               THEN /\ processExit' = TRUE
                    /\ processErr' = exitCause
                    /\ reaper' = "done"
                    /\ ritem' = MetaResult(NilMeta,
                                    IF exitCause # NoErr THEN ErrExitWithError
                                    ELSE ErrExitUnexpectedly)
               ELSE /\ ritem' = MetaResult(NilMeta, ErrEOF)
                    /\ UNCHANGED <<processExit, processErr, reaper>>
            /\ UNCHANGED pipe
    /\ UNCHANGED <<nextLedger, lastLedger, blocking, cachedMeta, configPath,
                   shutdown, metaC, metaCState, hcnetCoreRunner, untilSequence,
                   child, childNext, childCap, exitCause, runnerCall, latest,
                   consumerVars, session, consumed>>

\* a reader that puts the item in the buffer whether there is room or not
ReaderPush_NoCapacity ==
    /\ UNCHANGED otherVars
    /\ rpc = "push"
    /\ \/ /\ metaC' = Append(metaC, ritem)
          /\ IF \/ ritem.err # NoErr
                \/ untilSequence # 0 /\ ritem.meta.seq >= untilSequence
             THEN ReaderReturn
             ELSE /\ rpc' = "top"
                  /\ ritem' = MetaResult(NilMeta, NoErr)
                  /\ UNCHANGED untilSequence
       \/ /\ shutdown = "closed"
          /\ ReaderReturn
          /\ UNCHANGED metaC
    /\ UNCHANGED <<nextLedger, lastLedger, blocking, cachedMeta, configPath,
                   shutdown, metaCState, hcnetCoreRunner, processExit,
                   processErr, childVars, latest, consumerVars, session,
                   consumed>>

\* sendLedgerMeta, lines 354-371: the item goes into the buffer, or shutdown
\* is seen while the buffer is full (or at the same time)
ReaderPush ==
    /\ UNCHANGED otherVars
    /\ rpc = "push"
    /\ \/ /\ Len(metaC) < readAheadBufferSize
          /\ metaC' = Append(metaC, ritem)
          /\ IF \/ ritem.err # NoErr
                \/ untilSequence # 0 /\ ritem.meta.seq >= untilSequence
             THEN ReaderReturn
             ELSE /\ rpc' = "top"
                  /\ ritem' = MetaResult(NilMeta, NoErr)
                  /\ UNCHANGED untilSequence
       \/ /\ shutdown = "closed"
          /\ ReaderReturn
          /\ UNCHANGED metaC
    /\ UNCHANGED <<nextLedger, lastLedger, blocking, cachedMeta, configPath,
                   shutdown, metaCState, hcnetCoreRunner, processExit,
                   processErr, childVars, latest, consumerVars, session,
                   consumed>>

\* ------------------------------------------------- runner and environment

\* the goroutine of hcnetCoreRunner.start: cmd.Wait() returned, the result is
\* offered on processExit
ReaperWait ==
    /\ UNCHANGED otherVars
    /\ reaper = "waiting"
    /\ child = "exited"
    /\ reaper' = "sending"
    /\ UNCHANGED <<backendVars, readerVars, child, childNext, childCap,
                   exitCause, pipe, runnerCall, latest, consumerVars, session,
                   consumed>>

\* the child writes one frame; gap > 0 is a child that skips ledgers
ChildWrite(gap) ==
    /\ UNCHANGED otherVars
    /\ child = "running"
    /\ Len(pipe) < MaxPipe
    /\ childNext + gap <= childCap
    /\ pipe' = Append(pipe, Meta(childNext + gap, session))
    /\ childNext' = childNext + gap + 1
    /\ UNCHANGED <<backendVars, readerVars, child, childCap, exitCause, reaper,
                   runnerCall, latest, consumerVars, session, consumed>>

\* the child exits, with an error or without
ChildExit(cause) ==
    /\ UNCHANGED otherVars
    /\ child = "running"
    /\ child' = "exited"
    /\ exitCause' = cause
    /\ UNCHANGED <<backendVars, readerVars, childNext, childCap, pipe, reaper,
                   runnerCall, latest, consumerVars, session, consumed>>

\* the archive publishes the next checkpoint
ArchiveAdvance ==
    /\ UNCHANGED otherVars
    /\ latest < Len(Checkpoints)
    /\ latest' = latest + 1
    /\ UNCHANGED <<backendVars, readerVars, childVars, consumerVars, session,
                   consumed>>

Next ==
    \/ \E R \in Ranges : PrepareRange(R)
    \/ openOfflineReplaySubprocess
    \/ openOnlineReplaySubprocess
    \/ PrepareRangeWait
    \/ \E sequence \in Requested : GetLedger(sequence)
    \/ GetLedgerLoop
    \/ GetLedgerCloseLast
    \/ GetLedgerCloseErr
    \/ Close
    \/ CloseReturn
    \/ ReaderTop
    \/ ReaderRead
    \/ ReaderPush
    \/ ReaperWait
    \/ \E gap \in {0, 1} : ChildWrite(gap)
    \/ \E cause \in {NoErr, Err("exit code -1", 0, 0)} : ChildExit(cause)
    \/ ArchiveAdvance

Spec == Init /\ [][Next]_vars

\* ------------------------------------------------ runFromParams on its own

\* runFromParams(from) called on a backend, as TestCaptiveRunFromParams does;
\* the archive may fail to return the header (lines 313-317)
runFromParamsCall(from) ==
    /\ rfpFrom' = from
    /\ \E headerErr \in BOOLEAN :
          rfpResult' = IF headerErr /\ runFromParams(from).err = NoErr
                       THEN [runFromParams(from) EXCEPT !.err = ErrHeader]
                       ELSE runFromParams(from)
    /\ UNCHANGED <<captiveVars, processorVars, runnerVars, clientVars>>

NextRunFromParams == \E from \in 1..MaxFrom : runFromParamsCall(from)

SpecRunFromParams == Init /\ [][NextRunFromParams]_vars

\* ------------------------------------------------------------ properties

\* a call of the backend's API starts in this step
Called(name) ==
    /\ pc = "idle"
    /\ call'.name = name
    /\ <<pc, call, ret>>' # <<pc, call, ret>>

\* GetLedger(sequence) has returned r to the user of the backend
Returned(name) == pc = "idle" /\ call.name = name

\* the backend holds no session, no reader goroutine, no runner and no child
FullyClosed ==
    /\ nextLedger = 0
    /\ lastLedger = Nil
    /\ shutdown = "nil"
    /\ metaCState # "open"
    /\ rpc \in {"none", "done"}
    /\ hcnetCoreRunner = "nil"
    /\ child = "none"
    /\ reaper = "none"

\* C1: whenever GetLedger(s) returns present = true and no error, the ledger
\* it returns has sequence s, after any sequence of PrepareRange, GetLedger
\* and Close calls
C1_ReturnedSequence ==
    (Returned("GetLedger") /\ ret.present /\ ret.err = NoErr)
        => ret.meta.seq = call.seq

\* GetLedger skipped a ledger to reach the requested one, in the second
\* session of the backend
C1_Witness ==
    /\ Returned("GetLedger")
    /\ ret.present
    /\ ret.err = NoErr
    /\ Len(consumed) >= 2
    /\ session = 2

\* C2: within one open session the ledgers GetLedger accepts from the buffer
\* are consecutive: each has the sequence nextLedger held when it was pulled,
\* nextLedger then grows by exactly one (or the session closes on the last
\* ledger of a bounded range), and nextLedger never decreases while the
\* session stays open
C2_ConsecutiveLedgers ==
    /\ [](\A i \in 1..(Len(consumed) - 1) : consumed[i + 1] = consumed[i] + 1)
    /\ []((nextLedger # 0 /\ consumed # <<>>)
            => nextLedger = consumed[Len(consumed)] + 1)
    /\ [][(pc = "getLoop" /\ consumed' # consumed)
            => /\ Len(metaC) > 0
               /\ Head(metaC).err = NoErr
               /\ Head(metaC).meta.seq = nextLedger
               /\ metaC' = Tail(metaC)
               /\ consumed' = Append(consumed, nextLedger)
               /\ \/ nextLedger' = nextLedger + 1
                  \/ /\ lastLedger = nextLedger
                     /\ getSeq = nextLedger
                     /\ nextLedger' = 0]_vars
    /\ [][(session' = session /\ nextLedger # 0 /\ nextLedger' # 0)
            => nextLedger' \in {nextLedger, nextLedger + 1}]_vars

\* three ledgers were accepted in a row in a session that is still open
C2_Witness == Len(consumed) = 3 /\ nextLedger # 0

\* the ledger GetLedger(sequence) finds in the cache, if any
Cached(sequence) == cachedMeta # NilMeta /\ cachedMeta.seq = sequence

\* C3 (as amended): on a backend with no session (after Close returned, or
\* never prepared) and until PrepareRange is called again, GetLedger(s)
\* returns the error "session is closed, call PrepareRange first" for every s
\* but the sequence of the cached ledger, which it still returns
C3_ClosedSession ==
    /\ [](Returned("Close") => nextLedger = 0)
    /\ [][\A s \in Requested :
            (nextLedger = 0 /\ Called("GetLedger") /\ call'.seq = s)
                => /\ pc' = "idle"
                   /\ ret' = IF Cached(s) THEN Ret(TRUE, cachedMeta, NoErr)
                             ELSE Ret(FALSE, NilMeta, ErrClosed)]_vars

\* C3 (as claimed): after Close every GetLedger returns the closed error,
\* the sequence returned last included
C3_Original ==
    [][(nextLedger = 0 /\ Called("GetLedger"))
         => (pc' = "idle" /\ ret'.err = ErrClosed)]_vars

\* GetLedger answered "closed" on a backend that had a session and still
\* caches a ledger of it
C3_Witness ==
    /\ Returned("GetLedger")
    /\ ret.err = ErrClosed
    /\ cachedMeta # NilMeta
    /\ nextLedger = 0

\* C4: in a bounded session with upper bound b, once GetLedger(b) has
\* returned the ledger, the backend is closed: isClosed holds, the reader and
\* the child are shut down and GetLatestLedgerSequence returns an error
C4_ClosedAfterLast ==
    [][(/\ ret'.present
        /\ pc' = "idle"
        /\ \/ /\ Called("GetLedger")
              /\ nextLedger # 0
              /\ lastLedger # Nil
              /\ call'.seq = lastLedger
           \/ /\ pc = "closeWait"
              /\ closeCont = "getLast")
         => /\ FullyClosed'
            /\ GetLatestLedgerSequence'.err # NoErr]_vars

\* C5: if GetLedger(s) returned present = true, a GetLedger(s) that follows
\* it returns present = true with the same ledger and no error, takes nothing
\* out of the buffer and leaves nextLedger unchanged
C5_RepeatedGetLedger ==
    /\ []((Returned("GetLedger") /\ ret.present)
            => (ret.err = NoErr /\ cachedMeta = ret.meta /\ Cached(call.seq)))
    /\ [][(Returned("GetLedger") /\ ret.present /\ call' = call)
            => /\ pc' = "idle"
               /\ ret' = ret
               /\ nextLedger' = nextLedger
               /\ cachedMeta' = cachedMeta
               /\ Len(metaC') >= Len(metaC)
               /\ consumed' = consumed]_vars

\* GetLedger returned a ledger while the buffer holds the next ones
C5_Witness ==
    /\ Returned("GetLedger")
    /\ ret.present
    /\ nextLedger # 0
    /\ Len(metaC) = readAheadBufferSize

\* C6: on an open session GetLedger(s) with s < nextLedger, s not the cached
\* sequence, returns the "behind the captive core stream" error with
\* expected = nextLedger and changes nothing of the session
C6_BehindStream ==
    [][\A s \in Requested :
         (/\ nextLedger # 0
          /\ s < nextLedger
          /\ ~Cached(s)
          /\ Called("GetLedger")
          /\ call'.seq = s)
            => /\ pc' = "idle"
               /\ ret' = Ret(FALSE, NilMeta, ErrBehind(s, nextLedger))
               /\ UNCHANGED <<backendVars, readerVars, childVars, consumed>>]_vars

\* the behind error was returned after ledgers were read, with the buffer
\* not empty
C6_Witness ==
    /\ Returned("GetLedger")
    /\ nextLedger # 0
    /\ ret.err = ErrBehind(call.seq, nextLedger)
    /\ cachedMeta # NilMeta
    /\ Len(metaC) > 0

\* C7: when the item GetLedger pulls is an error result, or a ledger whose
\* sequence is not nextLedger, GetLedger returns that error (for a mismatch
\* "unexpected ledger (expected=nextLedger actual=seq)") and on return the
\* backend is closed; inside PrepareRange the error comes back wrapped
C7_ErrorClosesBackend ==
    /\ [][(/\ pc = "getLoop"
           /\ Len(metaC) > 0
           /\ metaC' = Tail(metaC)
           /\ \/ Head(metaC).err # NoErr
              \/ Head(metaC).meta.seq # nextLedger)
            => /\ pc' = "closeWait"
               /\ closeCont' = "getErr"
               /\ nextLedger' = 0
               /\ errOut' = IF Head(metaC).err # NoErr THEN Head(metaC).err
                            ELSE ErrUnexpected(nextLedger,
                                               Head(metaC).meta.seq)]_vars
    /\ [][(pc = "closeWait" /\ closeCont = "getErr" /\ pc' # pc)
            => /\ pc' = "idle"
               /\ ~ret'.present
               /\ ret'.err = IF inFF THEN ErrFastForward(errOut) ELSE errOut
               /\ FullyClosed']_vars

\* GetLedger returned the unexpected-ledger error
C7_Witness ==
    /\ Returned("GetLedger")
    /\ ret.err = ErrUnexpected(call.seq, call.seq + 1)
    /\ FullyClosed

\* C8: Close can be called in any state; a Close of a backend that is
\* already closed closes no channel and no runner, returns no error and
\* changes nothing
C8_CloseIdempotent ==
    /\ [](Returned("Close") => FullyClosed)
    /\ [][(/\ FullyClosed
           /\ \/ Called("Close")
              \/ pc = "closeWait" /\ closeCont = "Close" /\ pc' # pc)
            => /\ UNCHANGED <<backendVars, readerVars, childVars>>
               /\ pc' = "idle" => ret'.err = NoErr]_vars

\* Close runs on a backend whose session was closed before
C8_Witness ==
    /\ pc = "closeWait"
    /\ closeCont = "Close"
    /\ FullyClosed
    /\ metaCState = "closed"

\* PrepareRange was rejected for range misuse
Rejected ==
    /\ Returned("PrepareRange")
    /\ \/ ret.err = ErrAhead(call.from, getLatestCheckpointSequence)
       \/ ret.err = ErrTooFar(getLatestCheckpointSequence)
       \/ ret.err = ErrFromOne

\* C9: when PrepareRange is rejected for range misuse nothing has changed:
\* no runner was created and a session open before the call is still open
\* with the same nextLedger, lastLedger and buffer
C9_RejectedUnchanged ==
    Rejected
        => /\ nextLedger = pre.nextLedger
           /\ lastLedger = pre.lastLedger
           /\ metaC = pre.metaC
           /\ hcnetCoreRunner = pre.runner

\* C10: if PrepareRange returns an error, the backend is closed on return:
\* IsPrepared is false for every range, GetLedger finds the session closed
\* and no reader or child of the failed session remains
C10_ClosedAfterError ==
    (Returned("PrepareRange") /\ ret.err # NoErr)
        => /\ isClosed
           /\ \A R \in Ranges : ~IsPrepared(R)
           /\ rpc \in {"none", "done"}
           /\ child # "running"

\* the child of the session PrepareRange waits on has exited without having
\* written a frame (childNext is still the first ledger of the session)
NoFrameDelivered ==
    /\ child = "exited"
    /\ consumed = <<>>
    /\ childNext = IF nextLedger # 0 THEN nextLedger
                   ELSE runFromParams(call.from).nextLedger

\* C11: if the child exits before delivering any frame, PrepareRange returns
\* the child-exit error ("exited with an error" when the child failed,
\* "exited without an error unexpectedly" when it did not), never success
C11_ChildExitError ==
    [][(/\ call.name = "PrepareRange"
        /\ NoFrameDelivered
        /\ pc' = "idle"
        /\ \/ pc = "prepWait"
           \/ pc = "closeWait" /\ closeCont = "getErr" /\ inFF)
         => LET e == IF pc = "prepWait" THEN ret'.err ELSE errOut
            IN  e = IF exitCause # NoErr THEN ErrExitWithError
                    ELSE ErrExitUnexpectedly]_vars

\* C12 (as amended): PrepareRange(unbounded(from)) with from more than 128
\* past the latest checkpoint returns an error, unless an unbounded session
\* with nextLedger <= from is open: that session is reused and the call
\* succeeds at once
C12_TooFarRejected ==
    /\ [][\A R \in UnboundedRanges :
            (/\ Called("PrepareRange")
             /\ call' = CallPrepareRange(R)
             /\ R.from > getLatestCheckpointSequence + 128)
                => IF lastLedger = Nil /\ nextLedger # 0 /\ nextLedger <= R.from
                   THEN /\ pc' = "idle"
                        /\ ret'.err = NoErr
                        /\ UNCHANGED <<backendVars, readerVars, childVars>>
                   ELSE /\ pc' = "closeWait"
                        /\ closeCont' = "openOnline"]_vars
    /\ [][(/\ pc = "closeWait"
           /\ closeCont = "openOnline"
           /\ pc' # pc
           /\ call.from > getLatestCheckpointSequence + 128)
            => /\ pc' = "idle"
               /\ ret'.err # NoErr
               /\ child' = "none"
               /\ nextLedger' = 0]_vars

\* C12 (as claimed): from > latest checkpoint + 128 is an error in every
\* state of the backend
C12_Original ==
    [][\A R \in UnboundedRanges :
         (/\ Called("PrepareRange")
          /\ call' = CallPrepareRange(R)
          /\ R.from > getLatestCheckpointSequence + 128)
            => ~(pc' = "idle" /\ ret'.err = NoErr)]_vars

\* a request too far ahead was rejected on a backend that had a bounded
\* session open
C12_Witness ==
    /\ Returned("PrepareRange")
    /\ ~call.bounded
    /\ ret.err = ErrTooFar(getLatestCheckpointSequence)
    /\ pre.nextLedger # 0
    /\ pre.lastLedger # Nil

\* the open session holds every ledger of R: it is unbounded, or bounded and
\* R ends (once clamped to the latest checkpoint, as PrepareRange clamps it)
\* no later than the session does
CanServe(R) ==
    /\ nextLedger # 0
    /\ nextLedger <= R.from
    /\ \/ lastLedger = Nil
       \/ /\ R.bounded
          /\ Min(R.to, getLatestCheckpointSequence) <= lastLedger

\* C13: IsPrepared(R) is true only if the open session can serve every
\* ledger of R, and PrepareRange returns at once, spawning nothing, only in
\* that case
C13_PreparedServesRange ==
    /\ [](\A R \in Ranges : IsPrepared(R) => CanServe(R))
    /\ [][\A R \in Ranges :
            (/\ Called("PrepareRange")
             /\ call' = CallPrepareRange(R)
             /\ pc' = "idle"
             /\ ret'.err = NoErr)
                => CanServe(R)]_vars

\* C14: a PrepareRange(bounded [from, to]) that starts a session invokes
\* catchup(from, min(to, latest checkpoint)) and leaves
\* nextLedger = max(2, from - from mod 64), lastLedger = min(to, latest
\* checkpoint) and blocking = true, which the wait for the first ledger keeps;
\* with from > latest checkpoint it returns an error and invokes no catchup
C14_BoundedSession ==
    /\ [][(pc = "closeWait" /\ closeCont = "openOffline" /\ pc' # pc)
            => LET from == call.from
                   to == IF call.to < getLatestCheckpointSequence THEN call.to
                         ELSE getLatestCheckpointSequence
                   first == IF from - (from % 64) < 2 THEN 2
                            ELSE from - (from % 64)
               IN  IF from > getLatestCheckpointSequence
                   THEN /\ pc' = "idle"
                        /\ ret'.err # NoErr
                        /\ runnerCall' = NoRunnerCall
                        /\ child' = "none"
                        /\ session' = session
                   ELSE \/ /\ pc' = "idle"
                           /\ ret'.err # NoErr
                           /\ session' = session
                        \/ /\ pc' = "prepWait"
                           /\ session' = session + 1
                           /\ runnerCall' = RunnerCall("catchup", from, to)
                           /\ nextLedger' = first
                           /\ lastLedger' = to
                           /\ blocking']_vars
    /\ [][(pc = "prepWait" /\ pc' # pc)
            => /\ pc' = "idle"
               /\ UNCHANGED <<nextLedger, lastLedger, blocking, runnerCall,
                              session>>]_vars

\* bounded sessions were prepared from before the first checkpoint and, with
\* the upper bound clamped to the archive, from after it
C14_Witness ==
    /\ Returned("PrepareRange")
    /\ ret.err = NoErr
    /\ session = 2
    /\ runnerCall = RunnerCall("catchup", 65, 66)
    /\ nextLedger = 64
    /\ lastLedger = 66
    /\ cachedMeta.seq = 3

\* the last checkpoint (a ledger one below a multiple of 64) at or before
\* ledger, for ledger >= 63
CheckpointAtOrBefore(ledger) ==
    CHOOSE k \in 1..ledger :
        /\ (k + 1) % 64 = 0
        /\ \A j \in (k + 1)..ledger : (j + 1) % 64 # 0

\* C15: for from >= 2 runFromParams(from) returns runFrom = 2, nextLedger = 2
\* and reads the header of ledger 3 when from <= 63; otherwise, with c the
\* checkpoint at or before from, runFrom = c - 1, nextLedger = max(2, c - 63)
\* and the header read is that of c; so 2 <= nextLedger <= from. For from = 1
\* it returns an error
C15_RunFromParams ==
    rfpFrom # 0
        => IF rfpFrom = 1 THEN rfpResult.err # NoErr
           ELSE rfpResult.err = NoErr
                  => LET c == CheckpointAtOrBefore(rfpFrom)
                     IN  /\ IF rfpFrom <= 63
                            THEN /\ rfpResult.runFrom = 2
                                 /\ rfpResult.nextLedger = 2
                                 /\ rfpResult.header = 3
                            ELSE /\ rfpResult.runFrom = c - 1
                                 /\ rfpResult.nextLedger =
                                        (IF c - 63 < 2 THEN 2 ELSE c - 63)
                                 /\ rfpResult.header = c
                        /\ 2 <= rfpResult.nextLedger
                        /\ rfpResult.nextLedger <= rfpFrom

\* runFromParams answered for a checkpoint ledger past the second checkpoint
C15_Witness ==
    /\ rfpFrom = 191
    /\ rfpResult = Params(191, 190, 128, NoErr)

\* C16: PrepareRange(unbounded(from)) on an open unbounded session with
\* nextLedger <= from returns success at once, closes and starts nothing, and
\* leaves nextLedger, the cached ledger and the buffer as they were
C16_ReuseSession ==
    [][\A R \in UnboundedRanges :
         (/\ Called("PrepareRange")
          /\ call' = CallPrepareRange(R)
          /\ lastLedger = Nil
          /\ nextLedger # 0
          /\ nextLedger <= R.from)
            => /\ pc' = "idle"
               /\ ret' = NoRet
               /\ UNCHANGED <<backendVars, readerVars, childVars, session,
                              consumed>>]_vars

\* the session started for an early ledger was reused for ledger 192, with a
\* ledger cached and the buffer not empty
C16_Witness ==
    /\ Returned("PrepareRange")
    /\ call.from = 192
    /\ ret.err = NoErr
    /\ lastLedger = Nil
    /\ nextLedger \in 3..127
    /\ cachedMeta # NilMeta
    /\ Len(metaC) > 0

\* C17: a PrepareRange(unbounded(from)) that starts a session whose
\* nextLedger is below from runs GetLedger(from) with blocking set, which
\* consumes exactly the ledgers nextLedger..from in order; blocking is false
\* again when the fast-forward ends, with or without an error, and when
\* PrepareRange returns
C17_FastForward ==
    /\ [][(/\ pc = "closeWait"
           /\ closeCont = "openOnline"
           /\ session' = session + 1)
            => IF runFromParams(call.from).nextLedger < call.from
               THEN /\ pc' = "getLoop"
                    /\ inFF'
                    /\ getSeq' = call.from
                    /\ blocking'
               ELSE /\ pc' = "prepWait"
                    /\ ~blocking']_vars
    /\ [][(inFF /\ ~inFF')
            => /\ ~blocking'
               /\ \/ pc' = "idle" /\ ret'.err # NoErr
                  \/ /\ pc' = "prepWait"
                     /\ nextLedger' = call.from + 1
                     /\ Len(consumed') =
                            call.from + 1 - runFromParams(call.from).nextLedger
                     /\ \A i \in 1..Len(consumed') :
                            consumed'[i] =
                                runFromParams(call.from).nextLedger + i - 1]_vars
    /\ [][(pc = "prepWait" /\ pc' = "idle" /\ ~call.bounded) => ~blocking']_vars

\* C18: in an unbounded session, once PrepareRange has returned, GetLedger
\* never waits: blocking is off, the loop can always take its next step, and
\* with the buffer empty that step returns present = false and no error and
\* leaves the session as it is
C18_NonBlocking ==
    /\ []((pc \in {"idle", "getLoop"} /\ ~inFF /\ nextLedger # 0
             /\ lastLedger = Nil)
            => ~blocking)
    /\ []((pc = "getLoop" /\ ~inFF /\ lastLedger = Nil)
            => ENABLED GetLedgerLoop)
    /\ [][(/\ pc = "getLoop"
           /\ ~inFF
           /\ lastLedger = Nil
           /\ Len(metaC) = 0
           /\ pc' # pc)
            => /\ pc' = "idle"
               /\ ret' = Ret(FALSE, NilMeta, NoErr)
               /\ UNCHANGED <<backendVars, readerVars, childVars, session,
                              consumed>>]_vars

\* GetLedger returned "not yet" after it had skipped a ledger, and the
\* session is still open
C18_Witness ==
    /\ Returned("GetLedger")
    /\ ret = Ret(FALSE, NilMeta, NoErr)
    /\ lastLedger = Nil
    /\ nextLedger # 0
    /\ consumed # <<>>
    /\ call.seq > nextLedger

\* C19: when the child exits after frames were buffered the reader does not
\* close the backend; the error it reports follows every ledger already read,
\* so GetLedger returns those ledgers first, and the error GetLedger then
\* pulls (and closes the backend on) is the child-exit error
C19_ExitAfterFrames ==
    /\ [][(rpc' # rpc /\ UNCHANGED consumerVars)
            => UNCHANGED <<nextLedger, lastLedger, cachedMeta, shutdown,
                           metaCState, hcnetCoreRunner, child>>]_vars
    /\ [](\A i \in 1..Len(metaC) : metaC[i].err # NoErr => i = Len(metaC))
    /\ [][(/\ pc = "getLoop"
           /\ ~inFF
           /\ consumed # <<>>
           /\ child = "exited"
           /\ Len(metaC) > 0
           /\ metaC' = Tail(metaC)
           /\ Head(metaC).err # NoErr)
            => /\ Head(metaC).err = IF exitCause # NoErr THEN ErrExitWithError
                                    ELSE ErrExitUnexpectedly
               /\ pc' = "closeWait"
               /\ closeCont' = "getErr"
               /\ errOut' = Head(metaC).err]_vars

\* the ledgers in the read-ahead buffer, oldest first
BufferedLedgers == SelectSeq(metaC, LAMBDA item : item.err = NoErr)

\* the sequence of the newest ledger the backend holds: the last ledger in
\* the buffer, or the one before nextLedger when the buffer holds none
NewestBuffered ==
    IF BufferedLedgers = <<>> THEN nextLedger - 1
    ELSE BufferedLedgers[Len(BufferedLedgers)].meta.seq

\* C20: between calls, GetLatestLedgerSequence returns the upper bound of an
\* open bounded session, and for an open unbounded session nextLedger - 1
\* plus the number of items in the buffer, which is the sequence of the newest
\* ledger buffered; with no session open it returns an error
C20_LatestLedgerSequence ==
    pc = "idle"
        => IF nextLedger = 0 THEN GetLatestLedgerSequence.err # NoErr
           ELSE /\ GetLatestLedgerSequence.err = NoErr
                /\ GetLatestLedgerSequence.val =
                       IF lastLedger # Nil THEN lastLedger
                       ELSE nextLedger - 1 + Len(metaC)
                /\ lastLedger = Nil
                     => GetLatestLedgerSequence.val = NewestBuffered

\* =============================================================== processors
\* The state-entry processors OffersProcessor and ClaimableBalancesProcessor
\* (services/aurora/internal/ingest/processors), each called on its own:
\* ProcessChange for every change of a ledger, then Commit.

\* the cache is flushed when it holds more entries than this (100000 in the
\* program, scaled down so that a ledger of MaxChanges changes overflows it)
maxBatchSize == 1
offerCompactionWindow == 100
\* uint32 arithmetic wraps at 2^32; the model wraps at 2^30, above every
\* sequence it uses
Uint32Wrap == 2^30
Sub32(a, b) == (a - b) % Uint32Wrap

\* changes a processor is fed in one ledger
MaxChanges == 4
\* processors, or groups of processors, built in one behaviour
MaxLifetimes == 2
\* the store call, counted from the next one, that an action makes fail
MaxFail == 3
\* ledger sequences the processors are built for
Sequences == {1, 100, 101, 203}
EntryChanges(type) ==
    { Change(type, id, before, after) :
        id \in Ids, before \in {Nil, 1}, after \in {Nil, 1} }
        \ { Change(type, id, Nil, Nil) : id \in Ids }

\* ----------------------------------------------- io.LedgerEntryChangeCache

\* the position in the cache of the entry the change is about, 0 if none
CacheIndex(cache, change) ==
    IF \E i \in 1..Len(cache) :
          cache[i].type = change.type /\ cache[i].id = change.id
    THEN CHOOSE i \in 1..Len(cache) :
          cache[i].type = change.type /\ cache[i].id = change.id
    ELSE 0

\* the net change of two changes of one entry: first pre, last post
Fold(old, new) == Change(old.type, old.id, old.pre, new.post)

\* AddChange folds the change into the cache, which keeps insertion order; a
\* net change (null, null) is dropped
AddChange(cache, change) ==
    LET i == CacheIndex(cache, change)
    IN  IF i = 0 THEN Append(cache, change)
        ELSE IF Fold(cache[i], change).pre = Nil /\ Fold(cache[i], change).post = Nil
             THEN SubSeq(cache, 1, i - 1) \o SubSeq(cache, i + 1, Len(cache))
             ELSE [cache EXCEPT ![i] = Fold(cache[i], change)]

\* ------------------------------------------------------ the ingestion store

\* the next call on the store is the one that fails
Fails(s) == s.failAt = Len(s.log) + 1
Logged(s, name, arg) ==
    [s EXCEPT !.log = Append(@, SinkOp(name, arg, Fails(s)))]
SinkResult(s, rowsAffected, err) ==
    [sink |-> s, rowsAffected |-> rowsAffected, err |-> err]

\* UpdateOffer affects the row of the offer if it has one that is not
\* marked as deleted
UpdateOffer(s, id) ==
    IF Fails(s) THEN SinkResult(Logged(s, "UpdateOffer", id), 0, ErrSink)
    ELSE SinkResult(Logged(s, "UpdateOffer", id),
                    IF s.offers[id] = Row(Nil) THEN 1 ELSE 0, NoErr)

\* RemoveOffer marks the row as deleted at the sequence
RemoveOffer(s, id, sequence) ==
    IF Fails(s) THEN SinkResult(Logged(s, "RemoveOffer", id), 0, ErrSink)
    ELSE IF s.offers[id] = Row(Nil)
         THEN SinkResult([Logged(s, "RemoveOffer", id)
                              EXCEPT !.offers[id] = Row(sequence)], 1, NoErr)
         ELSE SinkResult(Logged(s, "RemoveOffer", id), 0, NoErr)

\* Exec of the offers batch insert builder: inserts its rows, and fails on a
\* row that is already there
OffersBatchExec(s, batch) ==
    IF Fails(s) \/ \E i \in 1..Len(batch) : s.offers[batch[i]].present
    THEN SinkResult([s EXCEPT !.log = Append(@, SinkOp("OffersBatch.Exec", batch, TRUE))],
                    0, ErrSink)
    ELSE SinkResult([Logged(s, "OffersBatch.Exec", batch) EXCEPT
                        !.offers = [id \in Ids |->
                            IF \E i \in 1..Len(batch) : batch[i] = id
                            THEN Row(Nil) ELSE s.offers[id]]],
                    Len(batch), NoErr)

\* CompactOffers deletes the rows marked as deleted before the cutoff
CompactOffers(s, cutoff) ==
    IF Fails(s) THEN SinkResult(Logged(s, "CompactOffers", cutoff), 0, ErrSink)
    ELSE SinkResult([Logged(s, "CompactOffers", cutoff) EXCEPT
                        !.offers = [id \in Ids |->
                            IF /\ s.offers[id].present
                               /\ s.offers[id].deleted_at # Nil
                               /\ s.offers[id].deleted_at < cutoff
                            THEN NoRow ELSE s.offers[id]]],
                    Cardinality({id \in Ids : /\ s.offers[id].present
                                              /\ s.offers[id].deleted_at # Nil
                                              /\ s.offers[id].deleted_at < cutoff}),
                    NoErr)

UpdateClaimableBalance(s, id) ==
    IF Fails(s) THEN SinkResult(Logged(s, "UpdateClaimableBalance", id), 0, ErrSink)
    ELSE SinkResult(Logged(s, "UpdateClaimableBalance", id),
                    IF s.balances[id].present THEN 1 ELSE 0, NoErr)

\* RemoveClaimableBalance deletes the row
RemoveClaimableBalance(s, id) ==
    IF Fails(s) THEN SinkResult(Logged(s, "RemoveClaimableBalance", id), 0, ErrSink)
    ELSE IF s.balances[id].present
         THEN SinkResult([Logged(s, "RemoveClaimableBalance", id)
                              EXCEPT !.balances[id] = NoRow], 1, NoErr)
         ELSE SinkResult(Logged(s, "RemoveClaimableBalance", id), 0, NoErr)

ClaimableBalancesBatchExec(s, batch) ==
    IF Fails(s) \/ \E i \in 1..Len(batch) : s.balances[batch[i]].present
    THEN SinkResult([s EXCEPT !.log =
                        Append(@, SinkOp("ClaimableBalancesBatch.Exec", batch, TRUE))],
                    0, ErrSink)
    ELSE SinkResult([Logged(s, "ClaimableBalancesBatch.Exec", batch) EXCEPT
                        !.balances = [id \in Ids |->
                            IF \E i \in 1..Len(batch) : batch[i] = id
                            THEN Row(Nil) ELSE s.balances[id]]],
                    Len(batch), NoErr)

\* ------------------------------------------------------- OffersProcessor

\* what a call on a processor leaves: the processor, the store, the error
PR(p, s, err) == [processor |-> p, sink |-> s, err |-> err]

NewOffersProcessor(sequence) == Processor("offer", sequence, <<>>, <<>>)

\* a reset that makes a new batch insert builder and keeps the cache
OffersProcessor_reset_KeepCache(p) == [p EXCEPT !.batch = <<>>]

\* reset, lines 29-32
OffersProcessor_reset(p) == [p EXCEPT !.batch = <<>>, !.cache = <<>>]

\* the loop of flushCache from the i-th folded change on, then batch.Exec
RECURSIVE OffersProcessor_flushFrom(_, _, _)
OffersProcessor_flushFrom(p, s, i) ==
    IF i > Len(p.cache)
    THEN LET e == OffersBatchExec(s, p.batch)
         IN  IF e.err # NoErr
             THEN PR(p, e.sink, Wrap(e.err, "error executing batch"))
             ELSE PR(p, e.sink, NoErr)
    ELSE LET change == p.cache[i]
             action == IF change.pre = Nil /\ change.post # Nil THEN "inserting"
                       ELSE IF change.pre # Nil /\ change.post = Nil THEN "removing"
                       ELSE "updating"
             r == IF action = "inserting" THEN SinkResult(s, 1, NoErr)
                  ELSE IF action = "removing"
                       THEN RemoveOffer(s, change.id, p.sequence)
                       ELSE UpdateOffer(s, change.id)
             q == IF action = "inserting"
                  THEN [p EXCEPT !.batch = Append(@, change.id)] ELSE p
         IN  IF r.err # NoErr THEN PR(q, r.sink, r.err)
             ELSE IF r.rowsAffected # 1
                  THEN PR(q, r.sink, StateError(r.rowsAffected, action, change.id))
                  ELSE OffersProcessor_flushFrom(q, r.sink, i + 1)

\* flushCache that executes the batch although the loop returned a state
\* error
OffersProcessor_flushCache_ExecAnyway(p, s) ==
    LET f == OffersProcessor_flushFrom(p, s, 1)
    IN  IF f.err # NoErr /\ Cause(f.err).kind = "state error"
        THEN PR(f.processor, OffersBatchExec(f.sink, f.processor.batch).sink,
                f.err)
        ELSE f

OffersProcessor_flushCache(p, s) == OffersProcessor_flushFrom(p, s, 1)

\* ProcessChange that flushes at every change
OffersProcessor_ProcessChange_Unbatched(p, s, change) ==
    IF change.type # "offer" THEN PR(p, s, NoErr)
    ELSE LET q == [p EXCEPT !.cache = AddChange(@, change)]
             f == OffersProcessor_flushCache(q, s)
         IN  IF Len(q.cache) > 0
             THEN IF f.err # NoErr
                  THEN PR(f.processor, f.sink, Wrap(f.err, "error in Commit"))
                  ELSE PR(OffersProcessor_reset(f.processor), f.sink, NoErr)
             ELSE PR(q, s, NoErr)

OffersProcessor_ProcessChange(p, s, change) ==
    IF change.type # "offer" THEN PR(p, s, NoErr)
    ELSE LET q == [p EXCEPT !.cache = AddChange(@, change)]
             f == OffersProcessor_flushCache(q, s)
         IN  IF Len(q.cache) > maxBatchSize
             THEN IF f.err # NoErr
                  THEN PR(f.processor, f.sink, Wrap(f.err, "error in Commit"))
                  ELSE PR(OffersProcessor_reset(f.processor), f.sink, NoErr)
             ELSE PR(q, s, NoErr)

\* Commit that compacts whatever the sequence is
OffersProcessor_Commit_AlwaysCompacts(p, s) ==
    LET f == OffersProcessor_flushCache(p, s)
        c == CompactOffers(f.sink, Sub32(p.sequence, offerCompactionWindow))
    IN  IF f.err # NoErr
        THEN PR(f.processor, f.sink, Wrap(f.err, "error flushing cache"))
        ELSE IF c.err # NoErr
             THEN PR(f.processor, c.sink, Wrap(c.err, "could not compact offers"))
             ELSE PR(f.processor, c.sink, NoErr)

OffersProcessor_Commit(p, s) ==
    LET f == OffersProcessor_flushCache(p, s)
        c == CompactOffers(f.sink, Sub32(p.sequence, offerCompactionWindow))
    IN  IF f.err # NoErr
        THEN PR(f.processor, f.sink, Wrap(f.err, "error flushing cache"))
        ELSE IF p.sequence > offerCompactionWindow
             THEN IF c.err # NoErr
                  THEN PR(f.processor, c.sink, Wrap(c.err, "could not compact offers"))
                  ELSE PR(f.processor, c.sink, NoErr)
             ELSE PR(f.processor, f.sink, NoErr)

\* --------------------------------------------- ClaimableBalancesProcessor

NewClaimableBalancesProcessor == Processor("claimable_balance", 0, <<>>, <<>>)

ClaimableBalancesProcessor_reset(p) == [p EXCEPT !.cache = <<>>]

\* the loop of Commit from the i-th folded change on, then batch.Exec
RECURSIVE ClaimableBalancesProcessor_commitFrom(_, _, _)
ClaimableBalancesProcessor_commitFrom(p, s, i) ==
    IF i > Len(p.cache)
    THEN LET e == ClaimableBalancesBatchExec(s, p.batch)
         IN  IF e.err # NoErr
             THEN PR(p, e.sink, Wrap(e.err, "error executing batch"))
             ELSE PR(p, e.sink, NoErr)
    ELSE LET change == p.cache[i]
             action == IF change.pre = Nil /\ change.post # Nil THEN "inserting"
                       ELSE IF change.pre # Nil /\ change.post = Nil THEN "removing"
                       ELSE "updating"
             r == IF action = "inserting" THEN SinkResult(s, 1, NoErr)
                  ELSE IF action = "removing"
                       THEN RemoveClaimableBalance(s, change.id)
                       ELSE UpdateClaimableBalance(s, change.id)
             q == IF action = "inserting"
                  THEN [p EXCEPT !.batch = Append(@, change.id)] ELSE p
         IN  IF r.err # NoErr THEN PR(q, r.sink, r.err)
             ELSE IF r.rowsAffected # 1
                  THEN PR(q, r.sink, StateError(r.rowsAffected, action, change.id))
                  ELSE ClaimableBalancesProcessor_commitFrom(q, r.sink, i + 1)

\* Commit starts with a new batch insert builder
ClaimableBalancesProcessor_Commit(p, s) ==
    ClaimableBalancesProcessor_commitFrom([p EXCEPT !.batch = <<>>], s, 1)

ClaimableBalancesProcessor_ProcessChange(p, s, change) ==
    IF change.type # "claimable_balance" THEN PR(p, s, NoErr)
    ELSE LET q == [p EXCEPT !.cache = AddChange(@, change)]
             f == ClaimableBalancesProcessor_Commit(q, s)
         IN  IF Len(q.cache) > maxBatchSize
             THEN IF f.err # NoErr
                  THEN PR(f.processor, f.sink, Wrap(f.err, "error in Commit"))
                  ELSE PR(ClaimableBalancesProcessor_reset(f.processor), f.sink, NoErr)
             ELSE PR(q, s, NoErr)

\* ------------------------------------ AccountsProcessor, SignersProcessor
\* The processors of accounts and of account signers, as far as the run of
\* TestProcessorRunnerRunHistoryArchiveIngestionGenesis shows them: accounts
\* are written with one UpsertAccounts at Commit, the signer of a created
\* account is added to a batch insert builder that Commit executes.

\* UpsertAccounts writes the rows of the batch
UpsertAccounts(s, batch) ==
    IF Fails(s) THEN SinkResult(Logged(s, "UpsertAccounts", batch), 0, ErrSink)
    ELSE SinkResult([Logged(s, "UpsertAccounts", batch) EXCEPT
                        !.accounts = [id \in Ids |->
                            IF \E i \in 1..Len(batch) : batch[i] = id
                            THEN Row(Nil) ELSE s.accounts[id]]],
                    Len(batch), NoErr)

RemoveAccount(s, id) ==
    IF Fails(s) THEN SinkResult(Logged(s, "RemoveAccount", id), 0, ErrSink)
    ELSE IF s.accounts[id].present
         THEN SinkResult([Logged(s, "RemoveAccount", id)
                              EXCEPT !.accounts[id] = NoRow], 1, NoErr)
         ELSE SinkResult(Logged(s, "RemoveAccount", id), 0, NoErr)

AccountSignersBatchExec(s, batch) ==
    IF Fails(s) \/ \E i \in 1..Len(batch) : s.signers[batch[i]].present
    THEN SinkResult([s EXCEPT !.log =
                        Append(@, SinkOp("AccountSignersBatch.Exec", batch, TRUE))],
                    0, ErrSink)
    ELSE SinkResult([Logged(s, "AccountSignersBatch.Exec", batch) EXCEPT
                        !.signers = [id \in Ids |->
                            IF \E i \in 1..Len(batch) : batch[i] = id
                            THEN Row(Nil) ELSE s.signers[id]]],
                    Len(batch), NoErr)

NewAccountsProcessor == Processor("account", 0, <<>>, <<>>)

RECURSIVE AccountsProcessor_commitFrom(_, _, _)
AccountsProcessor_commitFrom(p, s, i) ==
    IF i > Len(p.cache)
    THEN IF p.batch = <<>> THEN PR(p, s, NoErr)
         ELSE LET e == UpsertAccounts(s, p.batch)
              IN  IF e.err # NoErr
                  THEN PR(p, e.sink, Wrap(e.err, "errors in UpsertAccounts"))
                  ELSE PR(p, e.sink, NoErr)
    ELSE LET change == p.cache[i]
             r == RemoveAccount(s, change.id)
         IN  IF change.post # Nil
             THEN AccountsProcessor_commitFrom(
                      [p EXCEPT !.batch = Append(@, change.id)], s, i + 1)
             ELSE IF r.err # NoErr THEN PR(p, r.sink, r.err)
             ELSE IF r.rowsAffected # 1
                  THEN PR(p, r.sink, StateError(r.rowsAffected, "removing", change.id))
                  ELSE AccountsProcessor_commitFrom(p, r.sink, i + 1)

AccountsProcessor_Commit(p, s) ==
    AccountsProcessor_commitFrom([p EXCEPT !.batch = <<>>], s, 1)

AccountsProcessor_ProcessChange(p, s, change) ==
    IF change.type # "account" THEN PR(p, s, NoErr)
    ELSE LET q == [p EXCEPT !.cache = AddChange(@, change)]
             f == AccountsProcessor_Commit(q, s)
         IN  IF Len(q.cache) > maxBatchSize
             THEN IF f.err # NoErr
                  THEN PR(f.processor, f.sink, Wrap(f.err, "error in Commit"))
                  ELSE PR([f.processor EXCEPT !.cache = <<>>], f.sink, NoErr)
             ELSE PR(q, s, NoErr)

NewSignersProcessor == Processor("signer", 0, <<>>, <<>>)

\* the master signer of a created account goes to the batch
SignersProcessor_ProcessChange(p, s, change) ==
    IF change.type # "account" \/ change.post = Nil \/ change.pre # Nil
    THEN PR(p, s, NoErr)
    ELSE PR([p EXCEPT !.batch = Append(@, change.id)], s, NoErr)

SignersProcessor_Commit(p, s) ==
    IF p.batch = <<>> THEN PR(p, s, NoErr)
    ELSE LET e == AccountSignersBatchExec(s, p.batch)
         IN  IF e.err # NoErr
             THEN PR(p, e.sink, Wrap(e.err, "error executing batch"))
             ELSE PR(p, e.sink, NoErr)

\* ------------------------------------------- a processor called on its own

ProcessChange(p, s, change) ==
    CASE p.type = "offer" -> OffersProcessor_ProcessChange(p, s, change)
      [] p.type = "claimable_balance" ->
            ClaimableBalancesProcessor_ProcessChange(p, s, change)
      [] p.type = "account" -> AccountsProcessor_ProcessChange(p, s, change)
      [] p.type = "signer" -> SignersProcessor_ProcessChange(p, s, change)

Commit(p, s) ==
    CASE p.type = "offer" -> OffersProcessor_Commit(p, s)
      [] p.type = "claimable_balance" -> ClaimableBalancesProcessor_Commit(p, s)
      [] p.type = "account" -> AccountsProcessor_Commit(p, s)
      [] p.type = "signer" -> SignersProcessor_Commit(p, s)

\* a processor is in use until its Commit returned or a call returned an error
InUse ==
    /\ processor.type # "none"
    /\ presult.err = NoErr
    /\ presult.name # "Commit"

\* the changes of one entry in a ledger follow each other: an entry is
\* created only when it does not exist, updated or removed only when it does
Follows(changes, change) ==
    LET same == SelectSeq(changes,
                    LAMBDA c : c.type = change.type /\ c.id = change.id)
    IN  same # <<>> => (same[Len(same)].post = Nil <=> change.pre = Nil)

\* the changes fed to a processor: those of its type and one of another type
ChangesFor(type) ==
    EntryChanges(type) \cup
        { Change(IF type = "offer" THEN "claimable_balance" ELSE "offer", 1, Nil, 1) }

\* the store with the k-th call from now set to fail (none for k = 0)
FailingAt(s, k) == [s EXCEPT !.failAt = IF k = 0 THEN 0 ELSE Len(s.log) + k]

\* the runner builds the processors of a ledger; a behaviour stays with the
\* processor of one table, and its ledgers do not go back
NewProcessorCall(type, sequence) ==
    /\ ~InUse
    /\ lifetimes < MaxLifetimes
    /\ processor.type \in {"none", type}
    /\ sequence >= processor.sequence
    /\ processor' = IF type = "offer" THEN NewOffersProcessor(sequence)
                    ELSE NewClaimableBalancesProcessor
    /\ sink' = [sink EXCEPT !.log = <<>>, !.failAt = 0]
    /\ fed' = <<>>
    /\ presult' = PResult("New", NoErr)
    /\ lifetimes' = lifetimes + 1
    /\ UNCHANGED <<captiveVars, rfpVars, runnerVars, clientVars>>

ProcessChangeCall(change, k) ==
    /\ InUse
    /\ Len(fed) < MaxChanges
    /\ Follows(fed, change)
    /\ LET r == ProcessChange(processor, FailingAt(sink, k), change)
       IN  /\ processor' = r.processor
           /\ sink' = [r.sink EXCEPT !.failAt = 0]
           /\ presult' = PResult("ProcessChange", r.err)
    /\ fed' = Append(fed, change)
    /\ lifetimes' = lifetimes
    /\ UNCHANGED <<captiveVars, rfpVars, runnerVars, clientVars>>

CommitCall(k) ==
    /\ InUse
    /\ LET r == Commit(processor, FailingAt(sink, k))
       IN  /\ processor' = r.processor
           /\ sink' = [r.sink EXCEPT !.failAt = 0]
           /\ presult' = PResult("Commit", r.err)
    /\ UNCHANGED <<fed, lifetimes>>
    /\ UNCHANGED <<captiveVars, rfpVars, runnerVars, clientVars>>

NextProcessors ==
    \/ \E type \in {"offer", "claimable_balance"}, sequence \in Sequences :
          NewProcessorCall(type, sequence)
    \/ \E k \in 0..MaxFail :
          \E change \in ChangesFor(processor.type) : ProcessChangeCall(change, k)
    \/ \E k \in 0..MaxFail : CommitCall(k)

\* the captive backend takes no step here, so one of its configurations does
InitProcessors == Init /\ configPath = ""

SpecProcessors == InitProcessors /\ [][NextProcessors]_vars

\* ========================================================= ProcessorRunner
\* ProcessorRunner (services/aurora/internal/ingest) runs the processor
\* groups of one ledger, or of one checkpoint of the archive, against the
\* ledger backend, the history archive and the ingestion store.

MaxSupportedProtocolVersion == 15

\* what the runner works on: the store, the surroundings of the run, the calls
\* made so far, how many of them went to the backend or the archive, and
\* which of those fails (0: none)
World(s, env, events, ext, extFailAt) ==
    [sink |-> s, env |-> env, trace |-> events, ext |-> ext,
     extFailAt |-> extFailAt]
Traced(w, name, arg) == [w EXCEPT !.trace = Append(@, Event(name, arg))]
ExtFails(w) == w.extFailAt = w.ext + 1
External(w, name, arg) == [Traced(w, name, arg) EXCEPT !.ext = @ + 1]
\* what a step of the runner leaves: the world and the error
RR(w, err) == [w |-> w, err |-> err]

\* LedgerBackend.GetLedger as the runner sees it
ledgerBackend_GetLedger(w, sequence) ==
    IF ExtFails(w)
    THEN [w |-> External(w, "GetLedger", sequence), exists |-> FALSE,
          meta |-> NoEnv.ledger, err |-> ErrBackend]
    ELSE [w |-> External(w, "GetLedger", sequence), exists |-> w.env.exists,
          meta |-> IF w.env.exists THEN w.env.ledger ELSE NoEnv.ledger,
          err |-> NoErr]

historyAdapter_BucketListHash(w, sequence) ==
    IF ExtFails(w)
    THEN [w |-> External(w, "BucketListHash", sequence), hash |-> 0,
          err |-> ErrArchive]
    ELSE [w |-> External(w, "BucketListHash", sequence),
          hash |-> w.env.historyBucketListHash, err |-> NoErr]

\* GetState opens the reader of the checkpoint's entries
historyAdapter_GetState(w, sequence) ==
    IF ExtFails(w)
    THEN [w |-> External(w, "GetState", sequence), changes |-> <<>>,
          err |-> ErrArchive]
    ELSE [w |-> External(w, "GetState", sequence), changes |-> w.env.state,
          err |-> NoErr]

\* the entries of the genesis ledger: the root account
GenesisLedgerStateReader == << Change("account", 1, Nil, 1) >>

\* checkIfProtocolVersionSupported that only looks whether the ledger exists
checkIfProtocolVersionSupported_ExistsOnly(w, ledgerSequence) ==
    LET g == ledgerBackend_GetLedger(w, ledgerSequence)
    IN  IF g.err # NoErr THEN RR(g.w, Wrap(g.err, "Error getting ledger"))
        ELSE IF ~g.exists THEN RR(g.w, ErrLedgerMissing)
        ELSE RR(g.w, NoErr)

checkIfProtocolVersionSupported(w, ledgerSequence) ==
    LET g == ledgerBackend_GetLedger(w, ledgerSequence)
    IN  IF g.err # NoErr THEN RR(g.w, Wrap(g.err, "Error getting ledger"))
        ELSE IF ~g.exists THEN RR(g.w, ErrLedgerMissing)
        ELSE IF g.meta.ledgerVersion > MaxSupportedProtocolVersion
             THEN RR(g.w, ErrProtocol(g.meta.ledgerVersion,
                                      MaxSupportedProtocolVersion))
             ELSE RR(g.w, NoErr)

\* validateBucketList that does not compare the two hashes
validateBucketList_Uncompared(w, ledgerSequence) ==
    LET h == historyAdapter_BucketListHash(w, ledgerSequence)
        g == ledgerBackend_GetLedger(h.w, ledgerSequence)
    IN  IF h.err # NoErr
        THEN RR(h.w, Wrap(h.err, "Error getting bucket list hash"))
        ELSE IF g.err # NoErr THEN RR(g.w, Wrap(g.err, "Error getting ledger"))
        ELSE IF ~g.exists THEN RR(g.w, ErrCheckpointMissing(ledgerSequence))
        ELSE RR(g.w, NoErr)

validateBucketList(w, ledgerSequence) ==
    LET h == historyAdapter_BucketListHash(w, ledgerSequence)
        g == ledgerBackend_GetLedger(h.w, ledgerSequence)
    IN  IF h.err # NoErr
        THEN RR(h.w, Wrap(h.err, "Error getting bucket list hash"))
        ELSE IF g.err # NoErr THEN RR(g.w, Wrap(g.err, "Error getting ledger"))
        ELSE IF ~g.exists THEN RR(g.w, ErrCheckpointMissing(ledgerSequence))
        ELSE IF h.hash # g.meta.bucketListHash
             THEN RR(g.w, ErrBucketList(h.hash, g.meta.bucketListHash))
             ELSE RR(g.w, NoErr)

\* the processors of the change group that the model has, in their order
buildChangeProcessor(sequence) ==
    << NewAccountsProcessor, NewOffersProcessor(sequence), NewSignersProcessor,
       NewClaimableBalancesProcessor >>

\* what a call on a group leaves: the group, the store, the error
GR(group, s, err) == [group |-> group, sink |-> s, err |-> err]

\* the result of a call, named once and then used: r := f(); if r.err ...
With(result, Rest(_)) == Rest(result)

\* groupChangeProcessors.ProcessChange: every processor in turn
RECURSIVE groupChangeProcessors_processFrom(_, _, _, _)
groupChangeProcessors_processFrom(group, s, change, j) ==
    IF j > Len(group) THEN GR(group, s, NoErr)
    ELSE With(ProcessChange(group[j], s, change), LAMBDA r :
             IF r.err # NoErr
             THEN GR([group EXCEPT ![j] = r.processor], r.sink, r.err)
             ELSE groupChangeProcessors_processFrom(
                      [group EXCEPT ![j] = r.processor], r.sink, change, j + 1))

RECURSIVE groupChangeProcessors_commitFrom(_, _, _)
groupChangeProcessors_commitFrom(group, s, j) ==
    IF j > Len(group) THEN GR(group, s, NoErr)
    ELSE With(Commit(group[j], s), LAMBDA r :
             IF r.err # NoErr
             THEN GR([group EXCEPT ![j] = r.processor], r.sink, r.err)
             ELSE groupChangeProcessors_commitFrom(
                      [group EXCEPT ![j] = r.processor], r.sink, j + 1))

\* io.StreamChanges: the changes of the reader, one by one, to the group
RECURSIVE StreamChanges(_, _, _, _)
StreamChanges(w, group, changes, i) ==
    IF i > Len(changes) THEN [w |-> w, group |-> group, err |-> NoErr]
    ELSE With(Traced(w, "ProcessChange", changes[i]), LAMBDA t :
         With(groupChangeProcessors_processFrom(group, t.sink, changes[i], 1),
              LAMBDA r :
             IF r.err # NoErr
             THEN [w |-> [t EXCEPT !.sink = r.sink], group |-> r.group,
                   err |-> r.err]
             ELSE StreamChanges([t EXCEPT !.sink = r.sink], r.group, changes,
                                i + 1)))

\* StreamChanges, then Commit of the group
streamAndCommit(w, group, changes, wrapStream) ==
    With(StreamChanges(w, group, changes, 1), LAMBDA st :
        IF st.err # NoErr THEN RR(st.w, Wrap(st.err, wrapStream))
        ELSE With(Traced(st.w, "Commit", "changes"), LAMBDA t :
             With(groupChangeProcessors_commitFrom(st.group, t.sink, 1),
                  LAMBDA c :
                 IF c.err # NoErr
                 THEN RR([t EXCEPT !.sink = c.sink],
                         Wrap(c.err, "Error commiting changes from processor"))
                 ELSE RR([t EXCEPT !.sink = c.sink], NoErr))))

\* RunHistoryArchiveIngestion without the genesis branch
RunHistoryArchiveIngestion_NoGenesis(w, checkpointLedger) ==
    With(checkIfProtocolVersionSupported(w, checkpointLedger), LAMBDA p :
        IF p.err # NoErr
        THEN RR(p.w, Wrap(p.err,
                    "Error while checking for supported protocol version"))
        ELSE With(validateBucketList(p.w, checkpointLedger), LAMBDA v :
        IF v.err # NoErr
        THEN RR(v.w, Wrap(v.err, "Error validating bucket list from HAS"))
        ELSE With(historyAdapter_GetState(v.w, checkpointLedger), LAMBDA g :
        IF g.err # NoErr
        THEN RR(g.w, Wrap(g.err, "Error creating HAS reader"))
        ELSE streamAndCommit(g.w, buildChangeProcessor(checkpointLedger),
                             g.changes, "Error streaming changes from HAS"))))

RunHistoryArchiveIngestion(w, checkpointLedger) ==
    With(IF checkpointLedger = 1
         THEN [w |-> w, changes |-> GenesisLedgerStateReader, err |-> NoErr]
         ELSE With(checkIfProtocolVersionSupported(w, checkpointLedger), LAMBDA p :
              IF p.err # NoErr
              THEN [w |-> p.w, changes |-> <<>>,
                    err |-> Wrap(p.err,
                        "Error while checking for supported protocol version")]
              ELSE With(validateBucketList(p.w, checkpointLedger), LAMBDA v :
              IF v.err # NoErr
              THEN [w |-> v.w, changes |-> <<>>,
                    err |-> Wrap(v.err, "Error validating bucket list from HAS")]
              ELSE With(historyAdapter_GetState(v.w, checkpointLedger), LAMBDA g :
              IF g.err # NoErr
              THEN [w |-> g.w, changes |-> <<>>,
                    err |-> Wrap(g.err, "Error creating HAS reader")]
              ELSE g))),
         LAMBDA reader :
             IF reader.err # NoErr THEN RR(reader.w, reader.err)
             ELSE streamAndCommit(reader.w,
                                  buildChangeProcessor(checkpointLedger),
                                  reader.changes,
                                  "Error streaming changes from HAS"))

\* NewLedgerChangeReader and NewLedgerTransactionReader get the ledger from
\* the backend
NewLedgerReader(w, ledger) ==
    LET g == ledgerBackend_GetLedger(w, ledger)
    IN  IF g.err # NoErr THEN [w |-> g.w, meta |-> g.meta, err |-> g.err]
        ELSE IF ~g.exists THEN [w |-> g.w, meta |-> g.meta, err |-> ErrLedgerMissing]
        ELSE [w |-> g.w, meta |-> g.meta, err |-> NoErr]

runChangeProcessorOnLedger(w, group, ledger) ==
    With(NewLedgerReader(w, ledger), LAMBDA reader :
        IF reader.err # NoErr
        THEN RR(reader.w, Wrap(reader.err, "Error creating ledger change reader"))
        ELSE streamAndCommit(reader.w, group, reader.meta.changes,
                             "Error streaming changes from ledger"))

\* TransactionBatchInsertBuilder.Exec inserts the rows of the batch
TransactionsBatchExec(s, batch) ==
    IF Fails(s) \/ batch \cap s.transactions # {}
    THEN SinkResult([s EXCEPT !.log =
                        Append(@, SinkOp("TransactionsBatch.Exec", batch, TRUE))],
                    0, ErrSink)
    ELSE SinkResult([Logged(s, "TransactionsBatch.Exec", batch) EXCEPT
                        !.transactions = @ \cup batch],
                    Cardinality(batch), NoErr)

\* TransactionProcessor: ProcessTransaction adds the row to the batch
RECURSIVE StreamLedgerTransactions(_, _, _, _)
StreamLedgerTransactions(w, sequence, txs, i) ==
    IF i > txs THEN w
    ELSE StreamLedgerTransactions(Traced(w, "ProcessTransaction", i), sequence,
                                  txs, i + 1)

TransactionProcessor_Commit(s, sequence, txs) ==
    LET e == TransactionsBatchExec(s, {[seq |-> sequence, index |-> i] : i \in 1..txs})
    IN  IF e.err # NoErr
        THEN SinkResult(e.sink, 0, Wrap(e.err, "Error flushing transaction batch"))
        ELSE e

RunTransactionProcessorsOnLedger(w, ledger) ==
    LET reader == NewLedgerReader(w, ledger)
        p == checkIfProtocolVersionSupported(reader.w, ledger)
        st == StreamLedgerTransactions(p.w, reader.meta.seq, reader.meta.txs, 1)
        t == Traced(st, "Commit", "transactions")
        c == TransactionProcessor_Commit(t.sink, reader.meta.seq, reader.meta.txs)
    IN  IF reader.err # NoErr
        THEN RR(reader.w, Wrap(reader.err, "Error creating ledger reader"))
        ELSE IF p.err # NoErr
             THEN RR(p.w, Wrap(p.err,
                         "Error while checking for supported protocol version"))
        ELSE IF c.err # NoErr
             THEN RR([t EXCEPT !.sink = c.sink],
                     Wrap(c.err, "Error commiting changes from processor"))
             ELSE RR([t EXCEPT !.sink = c.sink], NoErr)

\* RunAllProcessorsOnLedger that returns after the change group
RunAllProcessorsOnLedger_ChangesOnly(w, sequence) ==
    With(checkIfProtocolVersionSupported(w, sequence), LAMBDA p :
        IF p.err # NoErr
        THEN RR(p.w, Wrap(p.err,
                    "Error while checking for supported protocol version"))
        ELSE runChangeProcessorOnLedger(p.w, buildChangeProcessor(sequence),
                                        sequence))

RunAllProcessorsOnLedger(w, sequence) ==
    With(checkIfProtocolVersionSupported(w, sequence), LAMBDA p :
        IF p.err # NoErr
        THEN RR(p.w, Wrap(p.err,
                    "Error while checking for supported protocol version"))
        ELSE With(runChangeProcessorOnLedger(
                      p.w, buildChangeProcessor(sequence), sequence), LAMBDA r :
        IF r.err # NoErr THEN r
        ELSE RunTransactionProcessorsOnLedger(r.w, sequence)))

\* -------------------------------------------------- the runner's callers

\* store calls a run makes at most, to pick the one that fails
MaxSinkOps == 7
\* calls on the backend and the archive a run makes at most
MaxExternal == 4
\* transactions of a ledger
MaxTxs == 2

\* ledgers the runner is called for, and the checkpoints
RunSequences == {64, 203}
RunCheckpoints == {1, 63}
\* the entry changes of a ledger
LedgerChanges ==
    { <<>>,
      << Change("offer", 1, Nil, 1) >>,
      << Change("offer", 1, 1, 1) >>,
      << Change("offer", 1, 1, Nil) >>,
      << Change("offer", 1, Nil, 1), Change("offer", 2, Nil, 1) >>,
      << Change("offer", 1, 1, 1), Change("claimable_balance", 1, Nil, 1) >>,
      << Change("claimable_balance", 1, 1, Nil) >>,
      << Change("offer", 1, Nil, 1), Change("offer", 2, Nil, 1),
         Change("offer", 1, 1, Nil) >> }
\* the entries of a checkpoint of the archive
ArchiveStates ==
    { << Change("account", 1, Nil, 1) >>,
      << Change("account", 1, Nil, 1), Change("account", 2, Nil, 1),
         Change("offer", 1, Nil, 1), Change("claimable_balance", 1, Nil, 1) >> }
\* what a run for a ledger finds
LedgerEnvs(sequence) ==
    { Env(TRUE, LedgerCloseMeta(sequence, 15, 7, changes, MaxTxs), 0, <<>>) :
        changes \in LedgerChanges }
    \cup { Env(TRUE, LedgerCloseMeta(sequence, 15, 7, <<>>, 0), 0, <<>>),
           Env(TRUE, LedgerCloseMeta(sequence, 200, 7,
                                     << Change("offer", 1, Nil, 1) >>, MaxTxs),
               0, <<>>),
           NoEnv }
\* what a run of the transaction processors finds
TransactionEnvs(sequence) ==
    { env \in LedgerEnvs(sequence) :
        env.ledger.changes \in {<<>>, << Change("offer", 1, Nil, 1) >>} }
\* what a run for a checkpoint finds: for checkpoint 1 nothing, or a ledger
\* that would pass none of the checks
CheckpointEnvs(sequence) ==
    IF sequence = 1
    THEN { NoEnv,
           Env(TRUE, LedgerCloseMeta(1, 200, 7, <<>>, 0), 8,
               << Change("offer", 1, Nil, 1) >>) }
    ELSE { Env(TRUE, LedgerCloseMeta(sequence, 15, 7, <<>>, 0), hash, state) :
             hash \in {7, 8}, state \in ArchiveStates }
         \cup { Env(TRUE, LedgerCloseMeta(sequence, 200, 7, <<>>, 0), 7,
                    << Change("account", 1, Nil, 1) >>),
                Env(FALSE, NoEnv.ledger, 7, << Change("account", 1, Nil, 1) >>) }
\* one call fails, on the store or outside, or none
Failures ==
    { <<k, 0>> : k \in 0..MaxSinkOps } \cup { <<0, e>> : e \in 1..MaxExternal }

\* the calls of a run start on a clean transaction of the caller
StartWorld(env, failure) ==
    World(FailingAt([sink EXCEPT !.log = <<>>], failure[1]), env, <<>>, 0,
          failure[2])

\* the state a call of the runner leaves
Ran(name, sequence, env, r) ==
    /\ runCall' = RunCall(name, sequence, env)
    /\ runErr' = r.err
    /\ trace' = r.w.trace
    /\ sink' = [r.w.sink EXCEPT !.failAt = 0]
    /\ durable' = durable
    /\ lifetimes' = lifetimes + 1
    /\ UNCHANGED <<captiveVars, rfpVars, clientVars, processor, fed, presult>>

RunAllProcessorsOnLedgerCall(sequence, env, failure) ==
    /\ lifetimes < MaxLifetimes
    /\ Tables(sink) = durable
    /\ Ran("RunAllProcessorsOnLedger", sequence, env,
           RunAllProcessorsOnLedger(StartWorld(env, failure), sequence))

RunTransactionProcessorsOnLedgerCall(sequence, env, failure) ==
    /\ lifetimes < MaxLifetimes
    /\ Tables(sink) = durable
    /\ Ran("RunTransactionProcessorsOnLedger", sequence, env,
           RunTransactionProcessorsOnLedger(StartWorld(env, failure), sequence))

RunHistoryArchiveIngestionCall(checkpointLedger, env, failure) ==
    /\ lifetimes < MaxLifetimes
    /\ Tables(sink) = durable
    /\ Ran("RunHistoryArchiveIngestion", checkpointLedger, env,
           RunHistoryArchiveIngestion(StartWorld(env, failure), checkpointLedger))

\* the caller commits the transaction of a run that returned no error
SinkCommit ==
    /\ runCall.name # "none"
    /\ runErr = NoErr
    /\ Tables(sink) # durable
    /\ durable' = Tables(sink)
    /\ UNCHANGED <<runCall, runErr, trace, sink>>
    /\ UNCHANGED <<captiveVars, rfpVars, clientVars, processor, fed, presult,
                   lifetimes>>

\* the caller rolls the transaction back
SinkRollback ==
    /\ runCall.name # "none"
    /\ Tables(sink) # durable
    /\ sink' = [sink EXCEPT !.offers = durable.offers,
                            !.balances = durable.balances,
                            !.accounts = durable.accounts,
                            !.signers = durable.signers,
                            !.transactions = durable.transactions]
    /\ UNCHANGED <<runCall, runErr, trace, durable>>
    /\ UNCHANGED <<captiveVars, rfpVars, clientVars, processor, fed, presult,
                   lifetimes>>

NextRunner ==
    \/ \E sequence \in RunSequences, failure \in Failures :
          \E env \in LedgerEnvs(sequence) :
              RunAllProcessorsOnLedgerCall(sequence, env, failure)
    \/ \E sequence \in RunSequences, failure \in Failures :
          \E env \in TransactionEnvs(sequence) :
              RunTransactionProcessorsOnLedgerCall(sequence, env, failure)
    \/ \E checkpointLedger \in RunCheckpoints, failure \in Failures :
          \E env \in CheckpointEnvs(checkpointLedger) :
              RunHistoryArchiveIngestionCall(checkpointLedger, env, failure)
    \/ SinkCommit
    \/ SinkRollback

SpecRunner == InitProcessors /\ [][NextRunner]_vars

\* ------------------------------------------- properties of the runner

\* this step is a call of the runner's operation
RunStep(name) == lifetimes' = lifetimes + 1 /\ runCall'.name = name

\* the net change of an entry in a ledger: the first pre and the last post
NetChange(changes, type, id) ==
    LET same == SelectSeq(changes, LAMBDA c : c.type = type /\ c.id = id)
    IN  IF same = <<>> THEN Change(type, id, Nil, Nil)
        ELSE Change(type, id, same[1].pre, same[Len(same)].post)

\* the store has every write of the ledger: a created entry has a live row,
\* a removed offer a row marked at the ledger, a removed balance no row, an
\* updated entry a row, and every transaction a row
AllApplied(s, ledger) ==
    /\ \A id \in Ids :
          LET n == NetChange(ledger.changes, "offer", id)
          IN  /\ n.pre = Nil /\ n.post # Nil => s.offers[id] = Row(Nil)
              /\ n.pre # Nil /\ n.post = Nil => s.offers[id] = Row(ledger.seq)
              /\ n.pre # Nil /\ n.post # Nil => s.offers[id] = Row(Nil)
    /\ \A id \in Ids :
          LET n == NetChange(ledger.changes, "claimable_balance", id)
          IN  /\ n.pre = Nil /\ n.post # Nil => s.balances[id] = Row(Nil)
              /\ n.pre # Nil /\ n.post = Nil => s.balances[id] = NoRow
              /\ n.pre # Nil /\ n.post # Nil => s.balances[id].present
    /\ \A i \in 1..ledger.txs :
          [seq |-> ledger.seq, index |-> i] \in s.transactions

\* C21 as stated: after RunAllProcessorsOnLedger returns an error the store
\* has none of the writes of the ledger, and after it returns without error
\* the store has all of them
C21_Original ==
    [][RunStep("RunAllProcessorsOnLedger")
          => /\ runErr' # NoErr => Tables(sink') = Tables(sink)
             /\ runErr' = NoErr => AllApplied(sink', runCall'.env.ledger)]_vars

\* C21, amended: RunAllProcessorsOnLedger neither commits nor rolls back;
\* whatever it returns, nothing of the ledger is durable when it returns;
\* after it returns without error the open transaction has all the writes of
\* the ledger; the writes a failed run made before the failing step are gone
\* when the caller rolls the transaction back, and those of the transaction
\* are durable when the caller commits
C21_AtomicWithCaller ==
    [][/\ RunStep("RunAllProcessorsOnLedger")
          => /\ durable' = durable
             /\ runErr' = NoErr => AllApplied(sink', runCall'.env.ledger)
       /\ durable' # durable => durable' = Tables(sink) /\ runErr = NoErr
       /\ (Tables(sink') # Tables(sink) /\ lifetimes' = lifetimes)
          => Tables(sink') = durable]_vars

\* a run returned an error after it had written to the store
C21_Witness ==
    /\ runCall.name = "RunAllProcessorsOnLedger"
    /\ runErr # NoErr
    /\ Tables(sink) # durable
    /\ \E i \in 1..Len(sink.log) : ~sink.log[i].failed

\* the steps of a run that hand something to a processor
ProcessorEvents == {"ProcessChange", "ProcessTransaction", "Commit"}
Handed(events) == { i \in 1..Len(events) : events[i].name \in ProcessorEvents }

\* the last run was for a ledger the backend holds, with a header of a
\* protocol version above the supported one
UnsupportedRun ==
    /\ runCall.name \in {"RunAllProcessorsOnLedger",
                         "RunTransactionProcessorsOnLedger",
                         "RunHistoryArchiveIngestion"}
    /\ runCall.name = "RunHistoryArchiveIngestion" => runCall.sequence # 1
    /\ runCall.env.exists
    /\ runCall.env.ledger.ledgerVersion > MaxSupportedProtocolVersion

\* C22: a run for a ledger whose protocol version is above
\* MaxSupportedProtocolVersion returns an error; the error names the version
\* of the ledger and the supported one (unless the backend failed to give
\* the ledger); no change and no transaction went to a processor, no
\* processor Commit ran and the store was not called
C22_ProtocolGate ==
    UnsupportedRun
    => /\ runErr # NoErr
       /\ Cause(runErr) \in {ErrProtocol(runCall.env.ledger.ledgerVersion,
                                         MaxSupportedProtocolVersion),
                             ErrBackend}
       /\ Handed(trace) = {}
       /\ sink.log = <<>>

\* a run of all processors stopped at the protocol check
C22_Witness ==
    /\ UnsupportedRun
    /\ runCall.name = "RunAllProcessorsOnLedger"
    /\ runCall.env.ledger.changes # <<>>
    /\ Cause(runErr) = ErrProtocol(200, 15)
    /\ Len(trace) = 1

\* the last run was RunHistoryArchiveIngestion for a checkpoint other than 1
CheckpointRun ==
    /\ runCall.name = "RunHistoryArchiveIngestion"
    /\ runCall.sequence # 1

\* the names of the steps of a run, in their order
Steps(events) == [i \in 1..Len(events) |-> events[i].name]
Opened(events) == { i \in 1..Len(events) : events[i].name = "GetState" }

\* C23: RunHistoryArchiveIngestion for a checkpoint other than 1 whose
\* ledger is absent from the backend, or whose bucket list hash in the
\* archive differs from the one of the ledger header, returns an error with
\* the snapshot not opened, no change streamed, no Commit and no store call;
\* the snapshot is opened only as the fourth step, after the protocol check
\* (GetLedger) and then the hash check (BucketListHash, GetLedger), on a
\* ledger that passes both
C23_BucketListValidated ==
    CheckpointRun
    => /\ (\/ ~runCall.env.exists
            \/ runCall.env.historyBucketListHash
                  # runCall.env.ledger.bucketListHash)
          => /\ runErr # NoErr
             /\ Opened(trace) = {}
             /\ Handed(trace) = {}
             /\ sink.log = <<>>
       /\ (Opened(trace) # {} \/ Handed(trace) # {})
          => /\ Len(trace) >= 4
             /\ SubSeq(Steps(trace), 1, 4)
                  = <<"GetLedger", "BucketListHash", "GetLedger", "GetState">>
             /\ runCall.env.exists
             /\ runCall.env.ledger.ledgerVersion <= MaxSupportedProtocolVersion
             /\ runCall.env.historyBucketListHash
                  = runCall.env.ledger.bucketListHash

\* a checkpoint run stopped at the comparison of the two hashes
C23_Witness ==
    /\ CheckpointRun
    /\ runCall.env.exists
    /\ Cause(runErr) = ErrBucketList(runCall.env.historyBucketListHash,
                                     runCall.env.ledger.bucketListHash)
    /\ Steps(trace) = <<"GetLedger", "BucketListHash", "GetLedger">>

\* ---------------------------------------- properties of the processors

\* a step of the processor in use: ProcessChange or Commit
ProcessorStep == InUse /\ lifetimes' = lifetimes /\ presult'.name # "none"
\* the store calls of the step
NewCalls == SubSeq(sink'.log, Len(sink.log) + 1, Len(sink'.log))
\* the store call is an update or a removal that the store carried out on
\* an entry that had no row to affect when the step began
Mismatch(op) ==
    /\ ~op.failed
    /\ \/ /\ op.name \in {"UpdateOffer", "RemoveOffer"}
          /\ sink.offers[op.arg] # Row(Nil)
       \/ /\ op.name \in {"UpdateClaimableBalance", "RemoveClaimableBalance"}
          /\ ~sink.balances[op.arg].present
ActionOf(op) ==
    IF op.name \in {"UpdateOffer", "UpdateClaimableBalance"} THEN "updating"
    ELSE "removing"

\* C24: in a flush, an update or a removal that affects a number of rows
\* other than 1 is the last store call of the flush, which returns the state
\* error of that change: nothing is called for a later change, the batch
\* insert is not executed, offers are not compacted and the tables are as
\* before; a state error never comes from an insertion
C24_StateErrorStops ==
    [][ProcessorStep
          => /\ \A j \in 1..Len(NewCalls) :
                   Mismatch(NewCalls[j])
                   => /\ j = Len(NewCalls)
                      /\ Cause(presult'.err)
                           = StateError(0, ActionOf(NewCalls[j]), NewCalls[j].arg)
             /\ (presult'.err # NoErr /\ Cause(presult'.err).kind = "state error")
                => /\ NewCalls # <<>>
                   /\ Mismatch(NewCalls[Len(NewCalls)])
                   /\ \A j \in 1..Len(NewCalls) :
                         NewCalls[j].name \notin {"OffersBatch.Exec",
                             "ClaimableBalancesBatch.Exec", "CompactOffers"}]_vars

\* a flush of an offers processor returned the state error of a removal
\* with an insertion pending in the batch
C24_Witness ==
    /\ processor.type = "offer"
    /\ presult.err # NoErr
    /\ Cause(presult.err).kind = "state error"
    /\ Cause(presult.err).action = "removing"
    /\ processor.batch # <<>>
    /\ sink.log # <<>>
    /\ sink.log[Len(sink.log)].name = "RemoveOffer"

\* the compactions among the store calls of the step
Compactions == { j \in 1..Len(NewCalls) : NewCalls[j].name = "CompactOffers" }
\* the flush of the Commit of the step went through: Commit returned no
\* error, or the error of the compaction that follows the flush
FlushSucceeded ==
    \/ presult'.err = NoErr
    \/ presult'.err.kind = "could not compact offers"

\* C25: Commit of an offers processor built for sequence S calls
\* CompactOffers exactly when its flush succeeded and S > 100, once, as its
\* last store call and with the cutoff S - 100, which is not negative; when
\* it then returns no error no row marked as deleted before S - 100 is
\* left; ProcessChange never calls CompactOffers
C25_Compaction ==
    [][(ProcessorStep /\ processor.type = "offer")
          => /\ presult'.name = "ProcessChange" => Compactions = {}
             /\ presult'.name = "Commit"
                => /\ Compactions # {}
                      <=> (FlushSucceeded
                           /\ processor.sequence > offerCompactionWindow)
                   /\ Compactions \subseteq {Len(NewCalls)}
                   /\ \A j \in Compactions :
                         /\ NewCalls[j].arg
                              = processor.sequence - offerCompactionWindow
                         /\ NewCalls[j].arg > 0
                   /\ (Compactions # {} /\ presult'.err = NoErr)
                      => \A id \in Ids :
                            sink'.offers[id].present
                            => \/ sink'.offers[id].deleted_at = Nil
                               \/ sink'.offers[id].deleted_at
                                    >= processor.sequence - offerCompactionWindow]_vars

\* Commit at sequence 203 compacted with cutoff 103 after a removal
C25_Witness ==
    /\ processor.type = "offer"
    /\ processor.sequence = 203
    /\ presult = PResult("Commit", NoErr)
    /\ Len(sink.log) >= 3
    /\ sink.log[Len(sink.log)] = SinkOp("CompactOffers", 103, FALSE)
    /\ \E j \in 1..Len(sink.log) : sink.log[j].name = "RemoveOffer"

\* the processor was fed create X; update X; update X; remove X and nothing
\* else
CreatedUpdatedRemoved ==
    \E id \in Ids :
        fed = << Change(processor.type, id, Nil, 1),
                 Change(processor.type, id, 1, 1),
                 Change(processor.type, id, 1, 1),
                 Change(processor.type, id, 1, Nil) >>
\* the names of the store calls made since the processor was built
CallNames == [j \in 1..Len(sink.log) |-> sink.log[j].name]

\* C26 as stated: after create X; update X; update X; remove X and Commit
\* the store was not called at all
C26_Original ==
    (CreatedUpdatedRemoved /\ presult.name = "Commit") => sink.log = <<>>

\* C26, amended: create X; update X; update X; remove X leaves the cache
\* empty without a store call; Commit then inserts, updates and removes
\* nothing, but it executes the batch, which is empty, and the offers
\* processor compacts when its sequence is above 100
C26_NetChangeDropped ==
    CreatedUpdatedRemoved
    => /\ processor.cache = <<>>
       /\ processor.batch = <<>>
       /\ presult.name = "ProcessChange" => sink.log = <<>>
       /\ presult.name = "Commit"
          => /\ sink.log[1].arg = <<>>
             /\ \/ /\ processor.type = "offer"
                   /\ CallNames \in
                        IF processor.sequence <= offerCompactionWindow
                        THEN { <<"OffersBatch.Exec">> }
                        ELSE { <<"OffersBatch.Exec">>,
                               <<"OffersBatch.Exec", "CompactOffers">> }
                   /\ (Len(sink.log) = 1 /\ processor.sequence > offerCompactionWindow)
                      => sink.log[1].failed
                \/ /\ processor.type = "claimable_balance"
                   /\ CallNames = <<"ClaimableBalancesBatch.Exec">>

\* an offers processor at sequence 203 committed after the four changes
C26_Witness ==
    /\ CreatedUpdatedRemoved
    /\ processor.type = "offer"
    /\ processor.sequence = 203
    /\ presult = PResult("Commit", NoErr)
    /\ Len(sink.log) = 2

\* the last run was RunHistoryArchiveIngestion for checkpoint 1
GenesisRun ==
    /\ runCall.name = "RunHistoryArchiveIngestion"
    /\ runCall.sequence = 1
\* the store calls of the run with the name
CallsOf(name) == SelectSeq(sink.log, LAMBDA op : op.name = name)

MaxContexts == 3
\* requests of one PrepareRange call
MaxRequests == 2
\* calls of Close
MaxCloses == 2

ErrCanceled == Err("context canceled", 0, 0)
ErrTransport == Err("transport error", 0, 0)
ErrStatus == Err("response status is not 200", 0, 0)
\* what the server answers to POST /prepare-range, or the request fails
Responses == {"failed", "status", "ready", "pending"}

\* createContext on the receiver c: cancels the context of c.cancel, makes
\* a new context and assigns its cancel func to c.cancel. The receiver is a
\* copy of the receiver of PrepareRange, itself a copy of the owner's value:
\* "receiver" is the copy after the assignment, "client" the owner's value,
\* which the assignment does not reach
createContext(r) ==
    [ctx |-> r.contexts + 1,
     cancelled |-> IF r.client.cancel # Nil
                   THEN r.cancelled \cup {r.client.cancel} ELSE r.cancelled,
     receiver |-> [r.client EXCEPT !.cancel = r.contexts + 1],
     client |-> r.client]

\* PrepareRange up to the loop: the context is created
RemotePrepareRangeCall(c) ==
    /\ remote.calls[c].at \in {"none", "returned"}
    /\ remote.contexts < MaxContexts
    /\ LET cc == createContext(remote)
       IN  remote' = [remote EXCEPT
                         !.client = cc.client,
                         !.contexts = cc.ctx,
                         !.cancelled = cc.cancelled,
                         !.calls[c] = PollCall("request", cc.ctx, 0, NoErr)]
    /\ UNCHANGED <<captiveVars, rfpVars, processorVars, runnerVars, kv>>

\* one round of the loop: the request with the context, the response
RemoteDo(c, response) ==
    /\ remote.calls[c].at = "request"
    /\ remote.calls[c].requests < MaxRequests
    /\ response = "ready" => remote.ready
    /\ response = "pending" => ~remote.ready
    /\ LET call_ == remote.calls[c]
           sent == [call_ EXCEPT !.requests = @ + 1]
       IN  remote' = [remote EXCEPT !.calls[c] =
               IF call_.ctx \in remote.cancelled
               THEN [sent EXCEPT !.at = "returned",
                        !.err = Wrap(ErrCanceled, "failed to execute request")]
               ELSE IF response = "failed"
               THEN [sent EXCEPT !.at = "returned",
                        !.err = Wrap(ErrTransport, "failed to execute request")]
               ELSE IF response = "status"
               THEN [sent EXCEPT !.at = "returned", !.err = ErrStatus]
               ELSE IF response = "ready"
               THEN [sent EXCEPT !.at = "returned", !.err = NoErr]
               ELSE [sent EXCEPT !.at = "select"]]
    /\ UNCHANGED <<captiveVars, rfpVars, processorVars, runnerVars, kv>>

\* the select of the loop: the context is done, or the timer fires; when
\* both are ready either case is taken
RemoteSelect(c, done) ==
    /\ remote.calls[c].at = "select"
    /\ done => remote.calls[c].ctx \in remote.cancelled
    /\ remote' = [remote EXCEPT !.calls[c] =
           IF done
           THEN [@ EXCEPT !.at = "returned",
                          !.err = Wrap(ErrCanceled, "shutting down")]
           ELSE [@ EXCEPT !.at = "request"]]
    /\ UNCHANGED <<captiveVars, rfpVars, processorVars, runnerVars, kv>>

\* Close on a copy of the owner's value: cancels the context of c.cancel
RemoteClose ==
    /\ remote.closes < MaxCloses
    /\ remote' = [remote EXCEPT
           !.cancelled = IF remote.client.cancel # Nil
                         THEN @ \cup {remote.client.cancel} ELSE @,
           !.closes = @ + 1]
    /\ UNCHANGED <<captiveVars, rfpVars, processorVars, runnerVars, kv>>

\* the server has the range ready
RemoteServerReady ==
    /\ ~remote.ready
    /\ remote' = [remote EXCEPT !.ready = TRUE]
    /\ UNCHANGED <<captiveVars, rfpVars, processorVars, runnerVars, kv>>

NextRemote ==
    \/ \E c \in Callers : RemotePrepareRangeCall(c)
    \/ \E c \in Callers, response \in Responses : RemoteDo(c, response)
    \/ \E c \in Callers, done \in BOOLEAN : RemoteSelect(c, done)
    \/ RemoteClose
    \/ RemoteServerReady

SpecRemote == InitProcessors /\ [][NextRemote]_vars

\* the calls of PrepareRange that are in their loop
Polling == { c \in Callers : remote.calls[c].at \in {"request", "select"} }

\* C28: when Close returns, the context of every PrepareRange call of the
\* client that is polling is cancelled (so that the call returns an error at
\* its select or at its next request)
C28_CloseCancels ==
    [][remote'.closes = remote.closes + 1
          => \A c \in Polling : remote.calls[c].ctx \in remote'.cancelled]_vars

\* ================================================= the ingestion cursors
\* The key value store of the history database (services/aurora/internal/
\* db2/history) holds the last ingested ledger and the offer compaction
\* sequence as decimal strings. A uint32 does not fit the integers of the
\* checker, so a number is its two 16 bit halves and a string its digits.

Half == 65536
\* the numbers written as cursors: 0, 1, 100, 65536, 1234567890, 2^31 - 1,
\* 2^31 and 2^32 - 1
CursorValues ==
    { U32(0, 0), U32(0, 1), U32(0, 100), U32(1, 0), U32(18838, 722),
      U32(32767, 65535), U32(32768, 0), U32(65535, 65535) }

ErrRange == Err("strconv: value out of range", 0, 0)
ErrSyntax == Err("strconv: invalid syntax", 0, 0)
ErrKeyNotFound == Err("key cannot be found in the key value store", 0, 0)
ErrStore == Err("key value store error", 0, 0)

\* strconv.FormatUint(uint64(v), 10): the decimal digits, "0" for zero
Div10(v) == U32(v.hi \div 10, ((v.hi % 10) * Half + v.lo) \div 10)
Mod10(v) == ((v.hi % 10) * Half + v.lo) % 10
RECURSIVE Digits(_)
Digits(v) ==
    IF v = U32(0, 0) THEN <<>> ELSE Append(Digits(Div10(v)), Mod10(v))
FormatUint(v) == IF v = U32(0, 0) THEN <<0>> ELSE Digits(v)

\* strconv.ParseUint(s, 10, 32): the digits are accumulated; a value above
\* 2^32 - 1 is a range error, an empty string a syntax error
RECURSIVE ParseFrom(_, _, _)
ParseFrom(s, i, v) ==
    IF i > Len(s) THEN [value |-> v, err |-> NoErr]
    ELSE LET lo10 == v.lo * 10 + s[i]
             hi10 == v.hi * 10 + lo10 \div Half
         IN  IF hi10 >= Half THEN [value |-> U32(Half - 1, Half - 1), err |-> ErrRange]
             ELSE ParseFrom(s, i + 1, U32(hi10, lo10 % Half))
ParseUint32(s) ==
    IF s = <<>> THEN [value |-> U32(0, 0), err |-> ErrSyntax]
    ELSE ParseFrom(s, 1, U32(0, 0))
\* strconv.ParseInt(s, 10, 32) of a string without a sign: as ParseUint, and
\* a value of 2^31 or more is a range error
ParseInt32(s) ==
    LET un == ParseUint32(s)
    IN  IF un.err # NoErr THEN un
        ELSE IF un.value.hi >= Half \div 2
             THEN [value |-> U32(Half \div 2 - 1, Half - 1), err |-> ErrRange]
             ELSE un

\* getValueFromStore: the value of the key, "" when the key has no row
getValueFromStore(store, key, ok) ==
    IF ok THEN [value |-> store.values[key], err |-> NoErr]
    ELSE [value |-> <<>>, err |-> Wrap(ErrStore, "could not get value")]

\* updateValueInStore: inserts the row or updates its value
updateValueInStore(store, key, value, number, ok) ==
    IF ok
    THEN KeyValueStore([store.values EXCEPT ![key] = value],
                       [store.written EXCEPT ![key] = number], "Update", key,
                       number, NoErr)
    ELSE KeyValueStore(store.values, store.written, "Update", key, number,
                       ErrStore)

\* the store after a Get returned
Got(store, key, value, err) ==
    KeyValueStore(store.values, store.written, "Get", key, value, err)

GetLastLedgerExpIngest(store, ok) ==
    LET g == getValueFromStore(store, lastLedgerKey, ok)
        parsed == ParseUint32(g.value)
    IN  IF g.err # NoErr THEN Got(store, lastLedgerKey, U32(0, 0), g.err)
        ELSE IF g.value = <<>>
             THEN Got(store, lastLedgerKey, U32(0, 0), ErrKeyNotFound)
        ELSE IF parsed.err # NoErr
             THEN Got(store, lastLedgerKey, U32(0, 0),
                      Wrap(parsed.err, "Error converting lastIngestedLedger value"))
             ELSE Got(store, lastLedgerKey, parsed.value, NoErr)

UpdateLastLedgerExpIngest(store, ledgerSequence, ok) ==
    updateValueInStore(store, lastLedgerKey, FormatUint(ledgerSequence),
                       ledgerSequence, ok)

GetOfferCompactionSequence(store, ok) ==
    LET g == getValueFromStore(store, offerCompactionSequence, ok)
        parsed == ParseInt32(g.value)
    IN  IF g.err # NoErr THEN Got(store, offerCompactionSequence, U32(0, 0), g.err)
        ELSE IF g.value = <<>>
             THEN Got(store, offerCompactionSequence, U32(0, 0), NoErr)
        ELSE IF parsed.err # NoErr
             THEN Got(store, offerCompactionSequence, U32(0, 0),
                      Wrap(parsed.err, "Error converting sequence value"))
             ELSE Got(store, offerCompactionSequence, parsed.value, NoErr)

UpdateOfferCompactionSequence(store, sequence, ok) ==
    updateValueInStore(store, offerCompactionSequence, FormatUint(sequence),
                       sequence, ok)

GetLastLedgerExpIngestCall(ok) ==
    /\ kv' = GetLastLedgerExpIngest(kv, ok)
    /\ UNCHANGED <<captiveVars, rfpVars, processorVars, runnerVars, remote>>

UpdateLastLedgerExpIngestCall(ledgerSequence, ok) ==
    /\ kv' = UpdateLastLedgerExpIngest(kv, ledgerSequence, ok)
    /\ UNCHANGED <<captiveVars, rfpVars, processorVars, runnerVars, remote>>

GetOfferCompactionSequenceCall(ok) ==
    /\ kv' = GetOfferCompactionSequence(kv, ok)
    /\ UNCHANGED <<captiveVars, rfpVars, processorVars, runnerVars, remote>>

UpdateOfferCompactionSequenceCall(sequence, ok) ==
    /\ kv' = UpdateOfferCompactionSequence(kv, sequence, ok)
    /\ UNCHANGED <<captiveVars, rfpVars, processorVars, runnerVars, remote>>

NextCursors ==
    \/ \E ok \in BOOLEAN : GetLastLedgerExpIngestCall(ok)
    \/ \E v \in CursorValues, ok \in BOOLEAN :
          UpdateLastLedgerExpIngestCall(v, ok)
    \/ \E ok \in BOOLEAN : GetOfferCompactionSequenceCall(ok)
    \/ \E v \in CursorValues, ok \in BOOLEAN :
          UpdateOfferCompactionSequenceCall(v, ok)

SpecCursors == InitProcessors /\ [][NextCursors]_vars

\* the last call was a Get of the key, the store answered it, and a number
\* was written under the key before
ReadBack(key) ==
    /\ kv.op = "Get"
    /\ kv.key = key
    /\ Cause(kv.err) # ErrStore
    /\ kv.written[key] # NoNumber

\* C29: a Get of a cursor that the store answers returns, without error,
\* the number the last successful Update of that cursor wrote
C29_CursorRoundTrip ==
    \A key \in Keys :
        ReadBack(key) => kv.err = NoErr /\ kv.value = kv.written[key]

\* =========================================================== termination
\* The goroutines of the backend are scheduled fairly: the caller of Close,
\* the reader (sendLedgerMeta) and the goroutine that waits for the child
\* take their next step when they can. Nothing is assumed of the child: it
\* may stay alive and write nothing.
SchedulerFairness ==
    /\ WF_vars(CloseReturn)
    /\ WF_vars(ReaderTop)
    /\ WF_vars(ReaderRead)
    /\ WF_vars(ReaderPush)
    /\ WF_vars(ReaperWait)

SpecFair == Spec /\ SchedulerFairness

\* C30: a call of Close that has signalled shutdown and waits for the reader
\* goroutine eventually returns
C30_CloseReturns ==
    (pc = "closeWait" /\ closeCont = "Close") ~> (pc = "idle")

\* The calls of the backend's user go on when they can, and the child does
\* what a replay does: it writes the next ledger while it has one to write
\* and the pipe takes it, and it exits once it has written its last.
ConsumerFairness ==
    /\ WF_vars(openOfflineReplaySubprocess)
    /\ WF_vars(openOnlineReplaySubprocess)
    /\ WF_vars(PrepareRangeWait)
    /\ WF_vars(GetLedgerLoop)
    /\ WF_vars(GetLedgerCloseLast)
    /\ WF_vars(GetLedgerCloseErr)

\* the child has written every ledger it had to write, and exits
ChildFinishes ==
    /\ childNext > childCap
    /\ \E cause \in {NoErr, Err("exit code -1", 0, 0)} : ChildExit(cause)

ChildFairness ==
    /\ WF_vars(ChildWrite(0))
    /\ WF_vars(ChildFinishes)

SpecLive == Spec /\ SchedulerFairness /\ ConsumerFairness /\ ChildFairness

\* C31: in a bounded session a GetLedger that has entered its loop
\* eventually returns to its caller, whatever sequence it was called for
C31_GetLedgerReturns ==
    (pc = "getLoop" /\ lastLedger # Nil) ~> (pc = "idle")

\* ------------------------------------------ prepared after PrepareRange

\* this step is the return of PrepareRange to its caller, without error
PrepareRangeSucceeds ==
    /\ pc' = "idle"
    /\ call'.name = "PrepareRange"
    /\ ret'.err = NoErr
    /\ pc # "idle" \/ Called("PrepareRange")

\* C32: when PrepareRange(R) returns without error, IsPrepared(R) is true,
\* so that PrepareRange(R) called again returns at once and starts nothing
C32_PreparedAfterPrepareRange ==
    [][PrepareRangeSucceeds => IsPrepared(call)']_vars

\* ------------------------------------------- the cache across sessions

\* C33: a GetLedger called after a PrepareRange that returned without error
\* returns no ledger of an earlier session: a ledger it returns at once was
\* read from the stream of the session that is open
C33_NoEarlierSession ==
    [][(/\ Called("GetLedger")
        /\ call.name = "PrepareRange"
        /\ ret.err = NoErr
        /\ pc' = "idle"
        /\ ret'.present)
         => ret'.meta.sess = session]_vars

\* ------------------------------------------- the error of an exited child

\* the error that carries the exit of the child
ChildExitError ==
    IF exitCause # NoErr THEN ErrExitWithError ELSE ErrExitUnexpectedly

\* C34: an error result that the reader has put in the buffer after the
\* child exited is the child-exit error with the child's exit cause,
\* whatever the order of the steps of the reader and of the goroutine that
\* waits for the child
C34_ExitErrorDelivered ==
    \A i \in 1..Len(metaC) :
        (child = "exited" /\ metaC[i].err # NoErr)
            => metaC[i].err = ChildExitError

\* ------------------------------------------- the wait of PrepareRange

\* the goroutines and the calls are scheduled fairly; nothing is assumed of
\* the child
SpecFairCalls == Spec /\ SchedulerFairness /\ ConsumerFairness

\* PrepareRange has started a subprocess and has not returned yet: it
\* fast-forwards (lines 262-270) or it is in its wait loop (lines 424-450)
NewSession ==
    /\ call.name = "PrepareRange"
    /\ \/ pc \in {"getLoop", "prepWait"}
       \/ pc = "closeWait" /\ closeCont \in {"getErr", "getLast"}

\* something the child wrote, or the error of a read, is in the pipe, with
\* the reader or in the buffer
FrameComing == pipe # <<>> \/ rpc = "push" \/ metaC # <<>>

\* the child of the session has written a frame
FrameWritten == FrameComing \/ consumed # <<>>

\* PrepareRange returns no success from a new session with an empty buffer
NoSuccessOnEmptyBuffer ==
    [][(PrepareRangeSucceeds /\ pc # "idle") => Len(metaC) > 0]_vars

Decoded == metaC \o (IF rpc = "push" THEN <<ritem>> ELSE <<>>)

\* the decoded items are ledgers of the session's child in the order it
\* wrote them, none of them twice and none accepted before, ahead of what
\* is still in the pipe; an error result comes last
InPipeOrder ==
    /\ \A i \in 1..Len(Decoded) :
          /\ Decoded[i].err # NoErr => i = Len(Decoded)
          /\ Decoded[i].err = NoErr =>
                /\ Decoded[i].meta.sess = session
                /\ \A j \in 1..Len(Decoded) :
                      (i < j /\ Decoded[j].err = NoErr)
                          => Decoded[i].meta.seq < Decoded[j].meta.seq
                /\ \A k \in 1..Len(pipe) : Decoded[i].meta.seq < pipe[k].seq
                /\ \A k \in 1..Len(consumed) :
                      consumed[k] < Decoded[i].meta.seq

\* the buffer changes at its two ends only: the reader appends the item it
\* holds when there is room, the consumer takes the first item, and a new
\* session starts with a new buffer
QueueSteps ==
    [][/\ metaC' # metaC =>
             \/ /\ rpc = "push"
                /\ Len(metaC) < readAheadBufferSize
                /\ metaC' = Append(metaC, ritem)
             \/ metaC # <<>> /\ metaC' = Tail(metaC)
             \/ session' = session + 1 /\ metaC' = <<>>
       /\ (rpc = "push" /\ rpc' # "push") =>
             \/ metaC' = Append(metaC, ritem)
             \/ shutdown = "closed"]_vars

\* C36: the buffer never holds more than readAheadBufferSize items; a
\* reader that finds it full keeps its item until there is room or until
\* shutdown, so that the decoded frames reach the consumer once each and in
\* the order of the pipe, and never more than three of them are unconsumed
C36_ReadAheadBuffer ==
    /\ [](Len(metaC) <= readAheadBufferSize)
    /\ [](Len(Decoded) <= readAheadBufferSize + 1)
    /\ []InPipeOrder
    /\ QueueSteps

\* the buffer is full and the reader holds a third decoded ledger
C36_Witness ==
    /\ Len(metaC) = readAheadBufferSize
    /\ rpc = "push"
    /\ ritem.err = NoErr
    /\ metaCState = "open"

\* --------------------------------------- one reader, one child at a time

\* the reader goroutine of a session has not returned
ReaderLive == rpc \notin {"none", "done"}

\* the subprocess of a session exists: it runs, or it has exited and the
\* runner has not closed yet
ChildLive == child # "none"

\* this step starts a subprocess and its reader goroutine
SessionStarts == session' = session + 1

\* C37: a reader goroutine and a subprocess are started only by the start
\* of a session, which comes after the Close inside the open function has
\* waited for the reader of the session before; a live subprocess is the
\* one of the backend's runner, which was started once, and a backend
\* without a started runner has no subprocess and no reader at work
C37_OneReaderOneChild ==
    /\ [][SessionStarts =>
             /\ ~ReaderLive
             /\ pc = "closeWait"
             /\ closeCont \in {"openOffline", "openOnline"}
             /\ nextLedger = 0
             /\ hcnetCoreRunner' = "started"
             /\ child' = "running"
             /\ pipe' = <<>>
             /\ rpc' = "top"]_vars
    /\ [][/\ (~ReaderLive /\ ReaderLive') => SessionStarts
          /\ (child # "running" /\ child' = "running") => SessionStarts
          /\ (hcnetCoreRunner # "started" /\ hcnetCoreRunner' = "started")
                => SessionStarts]_vars
    /\ [](ChildLive => hcnetCoreRunner = "started")
    /\ []((ReaderLive /\ shutdown # "closed") => hcnetCoreRunner = "started")

\* a second session has started after the reader of the first had returned
\* and while its subprocess was still there
C37_Witness ==
    /\ session = 2
    /\ ReaderLive
    /\ ChildLive
    /\ hcnetCoreRunner = "started"
    /\ consumed # <<>>

\* ------------------------------------------------ order of channel closes

\* Close was entered in this step
CloseEntered == pc # "closeWait" /\ pc' = "closeWait"

\* the step after c.wait.Wait(): close(c.metaC), c.shutdown = nil and the
\* close of the runner, which closes processExit
CloseFinishes == pc = "closeWait" /\ pc' # "closeWait"

\* the channel the goroutine of start offers the exit on is there and open:
\* the runner was started and has not been closed
ExitChanOpen == hcnetCoreRunner = "started" /\ reaper # "none"

\* the reader goroutine puts its item into the buffer in this step
SendOnMetaC == rpc = "push" /\ metaC' = Append(metaC, ritem)

\* the reader goroutine polls the exit channel in this step
PollExitChan == rpc = "reading" /\ rpc' = "push" /\ pipe = <<>>

\* C38: Close closes the shutdown channel when it is entered and closes
\* metaC, and the runner its exit channel, only in a later step that
\* needs the reader goroutine to have returned; the reader sends only on an
\* open metaC, polls only an open exit channel, and the goroutine of start
\* offers the exit only on an open exit channel
C38_CloseOrder ==
    /\ [][(CloseEntered /\ shutdown = "open") => shutdown' = "closed"]_vars
    /\ [][(shutdown # "closed" /\ shutdown' = "closed") => CloseEntered]_vars
    /\ [][(CloseFinishes /\ shutdown = "closed") => ~ReaderLive]_vars
    /\ [][(metaCState = "open" /\ metaCState' = "closed") =>
             /\ CloseFinishes
             /\ shutdown = "closed"
             /\ shutdown' = "nil"
             /\ ~ReaderLive]_vars
    /\ [][(ExitChanOpen /\ ~ExitChanOpen') =>
             /\ CloseFinishes
             /\ ~ReaderLive
             /\ reaper' = "none"]_vars
    /\ [][SendOnMetaC => metaCState = "open"]_vars
    /\ [][PollExitChan => ExitChanOpen]_vars
    /\ [](ReaderLive => (metaCState = "open" /\ ExitChanOpen))
    /\ [](reaper = "sending" => hcnetCoreRunner = "started")

\* a Close of a session with its reader returned has closed both channels
C38_Witness ==
    /\ Returned("Close")
    /\ metaCState = "closed"
    /\ shutdown = "nil"
    /\ rpc = "done"
    /\ reaper = "none"
    /\ hcnetCoreRunner = "nil"
    /\ session >= 1

\* --------------------------------------- PrepareRange of the remote client

\* PrepareRange of caller c returns in this step
RemoteReturns(c) ==
    remote.calls[c].at # "returned" /\ remote'.calls[c].at = "returned"

\* a call of PrepareRange creates its context in this step
RemotePrepareRangeStarts == remote'.contexts = remote.contexts + 1

\* the steps of the polling loop of PrepareRange, one caller at a time
RemoteLoopSteps ==
    [][\A c \in Callers :
            /\ (RemoteReturns(c) /\ remote'.calls[c].err = NoErr)
                  => (RemoteDo(c, "ready") /\ remote.ready)
            /\ (RemoteDo(c, "failed") \/ RemoteDo(c, "status"))
                  => (RemoteReturns(c) /\ remote'.calls[c].err # NoErr)
            /\ (RemoteDo(c, "pending") \/ RemoteSelect(c, TRUE))
                  => \/ remote'.calls[c].at = "select"
                     \/ /\ remote.calls[c].ctx \in remote.cancelled
                        /\ RemoteReturns(c)
                        /\ remote'.calls[c].err # NoErr
            /\ remote'.calls[c].requests = remote.calls[c].requests + 1
                  => remote.calls[c].at = "request"
            /\ (remote.calls[c].at = "select"
                   /\ remote'.calls[c].at = "request")
                  => RemoteSelect(c, FALSE)]_vars

\* C39: PrepareRange of the remote client returns nil only on a response
\* with ready = true; a failed request and a response that is not 200 make
\* it return an error at once, a cancelled context makes it return an error
\* at its request or its select; after a ready = false response it waits
\* in the select and sends the next request after the timer; a new call of
\* PrepareRange cancels the context of every call that is polling
C39_RemotePrepareRange ==
    /\ RemoteLoopSteps
    /\ [][RemotePrepareRangeStarts
            => \A c \in Polling : remote.calls[c].ctx \in remote'.cancelled]_vars

\* ------------------------------------------- the batches of ProcessChange

\* ProcessChange was called in this step with the last change of fed'
ProcessChangeStep == Len(fed') = Len(fed) + 1

\* the calls on the store whose name is in names
StoreCalls(log, names) == SelectSeq(log, LAMBDA op : op.name \in names)

BatchExecs == {"OffersBatch.Exec", "ClaimableBalancesBatch.Exec"}

\* the ids of the entries a cache creates, in the order of the cache
Inserted(cache) ==
    LET created == SelectSeq(cache,
                       LAMBDA c : c.pre = Nil /\ c.post # Nil)
    IN  [i \in 1..Len(created) |-> created[i].id]

\* C40: a ProcessChange of the offers or claimable balances processor
\* that returns no error leaves at most maxBatchSize entries in the cache;
\* it calls the store (flushes) exactly when the change is of the
\* processor's type and the cache with the change folded in holds more
\* than maxBatchSize entries; after a flush without error the cache is
\* empty, the batch of the offers processor is empty, and the batch that
\* was executed held the entries created since the flush before and no
\* others; without a flush the cache is the old one with the change folded
\* in and the batch is untouched
C40_BatchSize ==
    [][ProcessChangeStep =>
         LET change == fed'[Len(fed')]
             ofType == change.type = processor.type
             added == AddChange(processor.cache, change)
             flushed == sink'.log # sink.log
             ok == presult'.err = NoErr
         IN  /\ presult'.name = "ProcessChange"
             /\ ok => Len(processor'.cache) <= maxBatchSize
             /\ flushed <=> (ofType /\ Len(added) > maxBatchSize)
             /\ (flushed /\ ok) =>
                   /\ processor'.cache = <<>>
                   /\ processor.type = "offer" => processor'.batch = <<>>
                   /\ sink'.log[Len(sink'.log)].name \in BatchExecs
                   /\ sink'.log[Len(sink'.log)].arg = Inserted(added)
                   /\ Len(StoreCalls(sink'.log, BatchExecs))
                        = Len(StoreCalls(sink.log, BatchExecs)) + 1
             /\ ~flushed =>
                   /\ processor'.cache = IF ofType THEN added
                                         ELSE processor.cache
                   /\ processor'.batch = processor.batch]_vars

\* the second flush of one processor by ProcessChange, both without error,
\* the second with an entry to insert
C40_Witness ==
    /\ presult.name = "ProcessChange"
    /\ presult.err = NoErr
    /\ Len(fed) = MaxChanges
    /\ processor.cache = <<>>
    /\ Len(StoreCalls(sink.log, BatchExecs)) = 2
    /\ sink.log[Len(sink.log)].name \in BatchExecs
    /\ sink.log[Len(sink.log)].arg # <<>>

====
